---- MODULE Spec2Model ----
(***************************************************************************)
(* Ownership model of the DuinoMemory smart pointers.                      *)
(*                                                                         *)
(*   S_ptr  (src/src/internal/S_ptr.hpp)  shared ownership, a reference    *)
(*          count in a separately allocated uint16_t cell                  *)
(*   U_ptr  (src/src/internal/U_ptr.hpp)  exclusive ownership              *)
(*                                                                         *)
(* Resources and count cells are heap objects.  Every allocation gets a    *)
(* fresh identity (1, 2, ...), so that "destroyed once" and "freed once"   *)
(* are counters per identity.  0 is the null address.                      *)
(***************************************************************************)
EXTENDS Integers, FiniteSets, Sequences, TLC

\* ---- bounds of the model ------------------------------------------------
NumS == 3        \* S_ptr objects the program may have alive at once
NumU == 3        \* U_ptr objects the program may have alive at once
MaxBlk == 4      \* count cells the allocator hands out in one run
MaxRes == 3      \* resources (new T) created in one run
Garbage == 1     \* largest value a read of a freed count cell is taken to give
MaxCnt == 3      \* interrupt model: runs are followed while every stored count is <= MaxCnt
MaxIsrCopies == 256   \* torn-read model: copies the interrupt handler keeps in its table
RowLen == 16     \* table model: entries filled by one loop
MaxVal == 1      \* the values a resource can hold are 0..MaxVal

\* ---- program constants --------------------------------------------------
CountModulus == 65536   \* uint16_t count cell
ByteModulus == 256      \* one byte of the two-byte count cell

Null == 0
SPtrs == 1..NumS
UPtrs == 1..NumU
Blocks == 1..MaxBlk
Res == 1..MaxRes
Values == 0..MaxVal

VARIABLES
    sLive,      \* sLive[w]: the S_ptr object w is between construction and destruction
    sData,      \* SmartPointer<T>::_data of S_ptr w
    sRc,        \* S_ptr::_ref_count of w: a count cell, never null in this code
    cnt,        \* contents of each count cell
    blkFreed,   \* number of times `delete _ref_count` hit the cell
    blkRes,     \* the address a cell was allocated for (Null: for an empty wrapper)
    nextBlk,    \* next count cell the allocator hands out
    dtors,      \* number of times `delete` ran on each resource
    nextRes,    \* next resource `new T` creates
    uLive,      \* uLive[u]: the U_ptr object u is between construction and destruction
    uData,      \* SmartPointer<T>::_data of U_ptr u
    released,   \* addresses returned by U_ptr::release() and still held raw by the caller
    pc,         \* interrupt model: position of the main flow inside an S_ptr operation
    opW,        \* interrupt model: the S_ptr the main flow is operating on
    opO,        \* interrupt model: the source S_ptr of the operation
    opKind,     \* interrupt model: "copy", "dtor" or "assign"
    reg,        \* interrupt model: the register holding the loaded count
    anon,       \* number of further live S_ptr copies of wrapper 1 kept in a table
    seen,       \* interrupt model: the value of the cell when count() began
    val         \* the value stored at each address; val[Null] is what address 0 holds

sVars == <<sLive, sData, sRc, cnt, blkFreed, blkRes, nextBlk, dtors, nextRes>>
uVars == <<uLive, uData, released, val>>
tVars == <<anon, seen>>
mVars == <<pc, opW, opO, opKind, reg, anon, seen, val>>
vars == <<sLive, sData, sRc, cnt, blkFreed, blkRes, nextBlk, dtors, nextRes,
          uLive, uData, released, pc, opW, opO, opKind, reg, anon, seen, val>>

\* The shared-ownership state as one value, so that an operation is a function on it.
St ==
    [live |-> sLive, data |-> sData, rc |-> sRc, cnt |-> cnt, freed |-> blkFreed,
     bres |-> blkRes, nb |-> nextBlk, dtors |-> dtors, nr |-> nextRes]

Install(t) ==
    /\ sLive' = t.live
    /\ sData' = t.data
    /\ sRc' = t.rc
    /\ cnt' = t.cnt
    /\ blkFreed' = t.freed
    /\ blkRes' = t.bres
    /\ nextBlk' = t.nb
    /\ dtors' = t.dtors
    /\ nextRes' = t.nr

Cap2(n) == IF n >= 2 THEN 2 ELSE n

\* ---- the heap -----------------------------------------------------------
\* new T{...}: the caller's allocation of a resource; its address is s.nr.
newT(s) == [s EXCEPT !.nr = s.nr + 1]

\* new uint16_t{ 0 }: a fresh count cell holding 0, allocated for address p; its id is s.nb.
new_uint16(s, p) ==
    [s EXCEPT !.nb = s.nb + 1, !.cnt[s.nb] = 0, !.bres[s.nb] = p]

\* delete _ref_count
delete_ref_count(s, b) == [s EXCEPT !.freed[b] = Cap2(@ + 1)]

\* delete tmp (the resource); delete of a null pointer does nothing.
delete_data(s, a) == IF a = Null THEN s ELSE [s EXCEPT !.dtors[a] = Cap2(@ + 1)]

\* ---- SmartPointer -------------------------------------------------------
get(s, w) == s.data[w]

to_bool_always(s, w) == TRUE

\* explicit operator bool() const noexcept { return _data != nullptr; }
to_bool(s, w) == s.data[w] # Null

\* operator ==(const SmartPointer&, const T*) and its != : by address.
eq_raw(s, w, p) == get(s, w) = p
ne_raw(s, w, p) == get(s, w) # p

\* operator ==(const T* p, const SmartPointer<T>& sp) { return sp.get() == p; }
raw_eq(s, p, w) == get(s, w) = p

\* operator !=(T* p, const SmartPointer<T>& sp) { return sp != p; }
raw_ne(s, p, w) == ne_raw(s, w, p)

eq_ptr_same_object(s, a, b) == a = b

\* operator ==(const SmartPointer<T>& a, const SmartPointer<T>& b)
eq_ptr(s, a, b) == get(s, a) = get(s, b)

\* operator !=(const SmartPointer&, const SmartPointer&): by address.
ne_ptr(s, a, b) == get(s, a) # get(s, b)

\* T& operator *(void) const { return *_data; }: the value at the held address
\* in the memory mem; through a null pointer, whatever address 0 holds
deref(s, mem, w) == mem[get(s, w)]

eq_val_unchecked(s, mem, w, v) == deref(s, mem, w) = v

\* operator ==(const SmartPointer<T>& sp, const T& other)
\*     { return sp != nullptr && *sp == other; }
eq_val(s, mem, w, v) == ne_raw(s, w, Null) /\ deref(s, mem, w) = v

\* operator ==(const T& other, const SmartPointer<T>& sp) { return sp == other; }
val_eq(s, mem, v, w) == eq_val(s, mem, w, v)

\* operator !=(const SmartPointer<T>& sp, const T& other) { return !(sp == other); }
ne_val(s, mem, w, v) == ~eq_val(s, mem, w, v)

\* operator !=(const T& other, const SmartPointer<T>& sp) { return !(sp == other); }
val_ne(s, mem, v, w) == ~eq_val(s, mem, w, v)

\* ---- S_ptr --------------------------------------------------------------
\* uint16_t count(void) const { return *_ref_count; }
count(s, w) == s.cnt[s.rc[w]]

\* (*_ref_count)++ and *_ref_count += 1 on the uint16_t cell b
increment(s, b) == [s EXCEPT !.cnt[b] = (@ + 1) % CountModulus]

decrease_no_free(s, w) ==
    IF eq_raw(s, w, Null) THEN s
    ELSE [s EXCEPT !.cnt[s.rc[w]] = (@ - 1) % CountModulus]

decrease_keep_cell(s, w) ==
    IF eq_raw(s, w, Null) THEN s
    ELSE LET b == s.rc[w]
             a == get(s, w)
             s1 == [s EXCEPT !.cnt[b] = (@ - 1) % CountModulus]
         IN  IF s1.cnt[b] = 0
             THEN delete_data([s1 EXCEPT !.data[w] = Null], a)
             ELSE s1

decrease_no_null_check(s, w) ==
    LET b == s.rc[w]
        a == get(s, w)
        s1 == [s EXCEPT !.cnt[b] = (@ - 1) % CountModulus]
    IN  IF s1.cnt[b] = 0
        THEN delete_data([delete_ref_count(s1, b) EXCEPT !.data[w] = Null], a)
        ELSE s1

\* void decrease_ref_count(void)
decrease_ref_count(s, w) ==
    IF eq_raw(s, w, Null) THEN s
    ELSE LET b == s.rc[w]
             a == get(s, w)
             s1 == [s EXCEPT !.cnt[b] = (@ - 1) % CountModulus]
         IN  IF s1.cnt[b] = 0
             THEN delete_data([delete_ref_count(s1, b) EXCEPT !.data[w] = Null], a)
             ELSE s1

\* S_ptr(void) = default, with the member initializer _ref_count{ new uint16_t{ 0 } }
S_ptr_default(s, w) ==
    LET s1 == new_uint16(s, Null)
    IN  [s1 EXCEPT !.live[w] = TRUE, !.data[w] = Null, !.rc[w] = s.nb]

S_ptr_raw_counts_null(s, w, p) ==
    LET s1 == new_uint16(s, p)
        s2 == [s1 EXCEPT !.live[w] = TRUE, !.data[w] = p, !.rc[w] = s.nb]
    IN  increment(s2, s.nb)

\* S_ptr(T* data)
S_ptr_raw(s, w, p) ==
    LET s1 == new_uint16(s, p)
        s2 == [s1 EXCEPT !.live[w] = TRUE, !.data[w] = p, !.rc[w] = s.nb]
    IN  IF p # Null THEN increment(s2, s.nb) ELSE s2

S_ptr_copy_no_inc(s, w, o) ==
    [s EXCEPT !.live[w] = TRUE, !.data[w] = get(s, o), !.rc[w] = s.rc[o]]

\* S_ptr(const S_ptr<T>& other)
S_ptr_copy(s, w, o) ==
    LET s1 == [s EXCEPT !.live[w] = TRUE, !.data[w] = get(s, o), !.rc[w] = s.rc[o]]
    IN  IF get(s, o) # Null THEN increment(s1, s1.rc[w]) ELSE s1

S_ptr_move_steal(s, w, o) ==
    LET s1 == [s EXCEPT !.live[w] = TRUE, !.data[w] = get(s, o), !.rc[w] = s.rc[o]]
    IN  [s1 EXCEPT !.data[o] = Null]

\* S_ptr(S_ptr&& other) noexcept: the same body as the copy constructor
S_ptr_move(s, w, o) ==
    LET s1 == [s EXCEPT !.live[w] = TRUE, !.data[w] = get(s, o), !.rc[w] = s.rc[o]]
    IN  IF get(s, o) # Null THEN increment(s1, s1.rc[w]) ELSE s1

\* virtual ~S_ptr(void); afterwards the object and its two fields are gone
S_ptr_dtor(s, w) ==
    [decrease_ref_count(s, w) EXCEPT !.live[w] = FALSE, !.data[w] = Null, !.rc[w] = Null]

assign_raw_counts_null(s, w, p) ==
    IF ne_raw(s, w, p)
    THEN LET s1 == decrease_ref_count(s, w)
             s2 == new_uint16([s1 EXCEPT !.data[w] = p], p)
             s3 == [s2 EXCEPT !.rc[w] = s1.nb]
         IN  increment(s3, s1.nb)
    ELSE s

assign_raw_reuse_cell(s, w, p) ==
    IF ne_raw(s, w, p)
    THEN LET s1 == decrease_ref_count(s, w)
             s2 == [s1 EXCEPT !.data[w] = p]
         IN  IF p # Null THEN increment(s2, s2.rc[w]) ELSE s2
    ELSE s

\* S_ptr<T>& operator =(T* data_ptr)
assign_raw(s, w, p) ==
    IF ne_raw(s, w, p)
    THEN LET s1 == decrease_ref_count(s, w)
             s2 == new_uint16([s1 EXCEPT !.data[w] = p], p)
             s3 == [s2 EXCEPT !.rc[w] = s1.nb]
         IN  IF p # Null THEN increment(s3, s1.nb) ELSE s3
    ELSE s

assign_copy_no_release(s, w, o) ==
    IF ne_ptr(s, o, w)
    THEN LET s2 == [s EXCEPT !.data[w] = get(s, o), !.rc[w] = s.rc[o]]
         IN  IF ne_raw(s, o, Null) THEN increment(s2, s2.rc[w]) ELSE s2
    ELSE s

assign_copy_unguarded(s, w, o) ==
    LET s1 == decrease_ref_count(s, w)
        s2 == [s1 EXCEPT !.data[w] = get(s1, o), !.rc[w] = s1.rc[o]]
    IN  IF ne_raw(s1, o, Null) THEN increment(s2, s2.rc[w]) ELSE s2

assign_copy_always_inc(s, w, o) ==
    IF ne_ptr(s, o, w)
    THEN LET s1 == decrease_ref_count(s, w)
             s2 == [s1 EXCEPT !.data[w] = get(s1, o), !.rc[w] = s1.rc[o]]
         IN  increment(s2, s2.rc[w])
    ELSE s

\* S_ptr<T>& operator =(const S_ptr<T>& other)
assign_copy(s, w, o) ==
    IF ne_ptr(s, o, w)
    THEN LET s1 == decrease_ref_count(s, w)
             s2 == [s1 EXCEPT !.data[w] = get(s1, o), !.rc[w] = s1.rc[o]]
         IN  IF ne_raw(s1, o, Null) THEN increment(s2, s2.rc[w]) ELSE s2
    ELSE s

assign_move_no_inc(s, w, o) ==
    IF ne_ptr(s, o, w)
    THEN LET s1 == decrease_ref_count(s, w)
         IN  [s1 EXCEPT !.data[w] = get(s1, o), !.rc[w] = s1.rc[o]]
    ELSE s

\* S_ptr<T>& operator =(S_ptr<T>&& other) noexcept: the same body as copy assignment
assign_move(s, w, o) ==
    IF ne_ptr(s, o, w)
    THEN LET s1 == decrease_ref_count(s, w)
             s2 == [s1 EXCEPT !.data[w] = get(s1, o), !.rc[w] = s1.rc[o]]
         IN  IF ne_raw(s1, o, Null) THEN increment(s2, s2.rc[w]) ELSE s2
    ELSE s

\* S_ptr<T> make_shared(...) { return { new T{ args... } }; } building the
\* returned temporary in slot tmp
make_shared(s, tmp) == S_ptr_raw(newT(s), tmp, s.nr)

\* make_shared when `new T{ ... }` yields null: return { nullptr };
make_shared_null(s, tmp) == S_ptr_raw(s, tmp, Null)

\* The statement  w = make_shared<T>(...);  the temporary is built, move-assigned
\* to w and destroyed at the end of the full expression.
assign_make_shared(s, w, tmp) ==
    S_ptr_dtor(assign_move(make_shared(s, tmp), w, tmp), tmp)

\* ---- sequential use of S_ptr: one action per operation ------------------
Init ==
    /\ sLive = [w \in SPtrs |-> FALSE]
    /\ sData = [w \in SPtrs |-> Null]
    /\ sRc = [w \in SPtrs |-> Null]
    /\ cnt = [b \in Blocks |-> 0]
    /\ blkFreed = [b \in Blocks |-> 0]
    /\ blkRes = [b \in Blocks |-> Null]
    /\ nextBlk = 1
    /\ dtors = [a \in Res |-> 0]
    /\ nextRes = 1
    /\ uLive = [u \in UPtrs |-> FALSE]
    /\ uData = [u \in UPtrs |-> Null]
    /\ released = {}
    /\ pc = "idle"
    /\ opW = Null
    /\ opO = Null
    /\ opKind = "none"
    /\ reg = 0
    /\ anon = 0
    /\ seen = 0
    /\ val = [a \in {Null} \cup Res |-> 0]

CanAllocBlk == nextBlk <= MaxBlk
CanAllocRes == nextRes <= MaxRes

\* S_ptr<T> w;   or   S_ptr<T> w{ };
SNewDefault(w) ==
    /\ ~sLive[w] /\ CanAllocBlk
    /\ Install(S_ptr_default(St, w))
    /\ UNCHANGED <<uVars, mVars>>

\* S_ptr<T> w{ nullptr };
SNewNull(w) ==
    /\ ~sLive[w] /\ CanAllocBlk
    /\ Install(S_ptr_raw(St, w, Null))
    /\ UNCHANGED <<uVars, mVars>>

\* S_ptr<T> w{ new T };   and the object make_shared returns
SNewRaw(w) ==
    /\ ~sLive[w] /\ CanAllocBlk /\ CanAllocRes
    /\ Install(S_ptr_raw(newT(St), w, nextRes))
    /\ UNCHANGED <<uVars, mVars>>

\* S_ptr<T> w{ o };
SCopyCtor(w, o) ==
    /\ ~sLive[w] /\ sLive[o]
    /\ Install(S_ptr_copy(St, w, o))
    /\ UNCHANGED <<uVars, mVars>>

\* S_ptr<T> w{ move(o) };
SMoveCtor(w, o) ==
    /\ ~sLive[w] /\ sLive[o]
    /\ Install(S_ptr_move(St, w, o))
    /\ UNCHANGED <<uVars, mVars>>

\* w goes out of scope
SDtor(w) ==
    /\ sLive[w]
    /\ Install(S_ptr_dtor(St, w))
    /\ UNCHANGED <<uVars, mVars>>

\* w = nullptr;
SAssignNull(w) ==
    /\ sLive[w]
    /\ ne_raw(St, w, Null) => CanAllocBlk
    /\ Install(assign_raw(St, w, Null))
    /\ UNCHANGED <<uVars, mVars>>

\* w = new T;   (an address no wrapper owns)
SAssignFresh(w) ==
    /\ sLive[w] /\ CanAllocBlk /\ CanAllocRes
    /\ Install(assign_raw(newT(St), w, nextRes))
    /\ UNCHANGED <<uVars, mVars>>

\* w = w.get();
SAssignOwnRaw(w) ==
    /\ sLive[w]
    /\ Install(assign_raw(St, w, get(St, w)))
    /\ UNCHANGED <<uVars, mVars>>

\* w = o;   (o may be w itself)
SAssignCopy(w, o) ==
    /\ sLive[w] /\ sLive[o]
    /\ Install(assign_copy(St, w, o))
    /\ UNCHANGED <<uVars, mVars>>

\* w = move(o);
SAssignMove(w, o) ==
    /\ sLive[w] /\ sLive[o]
    /\ Install(assign_move(St, w, o))
    /\ UNCHANGED <<uVars, mVars>>

\* w = make_shared<T>(...);   the temporary lives in a free slot
SAssignMakeShared(w, tmp) ==
    /\ sLive[w] /\ ~sLive[tmp]
    /\ CanAllocBlk /\ CanAllocRes
    /\ Install(assign_make_shared(St, w, tmp))
    /\ UNCHANGED <<uVars, mVars>>

Next ==
    \/ \E w \in SPtrs : SNewDefault(w)
    \/ \E w \in SPtrs : SNewNull(w)
    \/ \E w \in SPtrs : SNewRaw(w)
    \/ \E w \in SPtrs, o \in SPtrs : SCopyCtor(w, o)
    \/ \E w \in SPtrs, o \in SPtrs : SMoveCtor(w, o)
    \/ \E w \in SPtrs : SDtor(w)
    \/ \E w \in SPtrs : SAssignNull(w)
    \/ \E w \in SPtrs : SAssignFresh(w)
    \/ \E w \in SPtrs : SAssignOwnRaw(w)
    \/ \E w \in SPtrs, o \in SPtrs : SAssignCopy(w, o)
    \/ \E w \in SPtrs, o \in SPtrs : SAssignMove(w, o)
    \/ \E w \in SPtrs, tmp \in SPtrs : SAssignMakeShared(w, tmp)

Spec == Init /\ [][Next]_vars

\* ---- DuinoMemory::U_ptr (src/src/internal/U_ptr.hpp) ----------------------
\* The exclusive-ownership state as one value: the wrappers, the raw addresses the
\* caller holds after release(), and the heap of resources.
Ut == [live |-> uLive, data |-> uData, rel |-> released, dtors |-> dtors, nr |-> nextRes]

InstallU(t) ==
    /\ uLive' = t.live
    /\ uData' = t.data
    /\ released' = t.rel
    /\ dtors' = t.dtors
    /\ nextRes' = t.nr

\* U_ptr(void) = default
U_ptr_default(s, u) == [s EXCEPT !.live[u] = TRUE, !.data[u] = Null]

\* explicit U_ptr(T* data); the caller hands the address over
U_ptr_raw(s, u, p) ==
    [s EXCEPT !.live[u] = TRUE, !.data[u] = p, !.rel = @ \ {p}]

U_ptr_move_keep_source(s, u, o) ==
    [s EXCEPT !.live[u] = TRUE, !.data[u] = s.data[o]]

\* U_ptr(U_ptr<T>&& other) noexcept
U_ptr_move(s, u, o) ==
    LET s1 == [s EXCEPT !.live[u] = TRUE, !.data[u] = Null]
        s2 == [s1 EXCEPT !.data[u] = s1.data[o]]
    IN  [s2 EXCEPT !.data[o] = Null]

U_ptr_dtor_leak(s, u) == [s EXCEPT !.live[u] = FALSE, !.data[u] = Null]

\* ~U_ptr(void): delete get(); afterwards the object is gone
U_ptr_dtor(s, u) ==
    [delete_data(s, s.data[u]) EXCEPT !.live[u] = FALSE, !.data[u] = Null]

release_and_delete(s, u) ==
    LET ptr == s.data[u]
    IN  [delete_data(s, ptr) EXCEPT !.data[u] = Null,
                                    !.rel = IF ptr = Null THEN @ ELSE @ \cup {ptr}]

\* T* release(void): the returned address is now the caller's
release(s, u) ==
    LET ptr == s.data[u]
    IN  [s EXCEPT !.data[u] = Null, !.rel = IF ptr = Null THEN @ ELSE @ \cup {ptr}]

U_assign_raw_unguarded(s, u, p) ==
    [delete_data(s, s.data[u]) EXCEPT !.data[u] = p, !.rel = @ \ {p}]

\* U_ptr<T>& operator =(T* data_ptr)
U_assign_raw(s, u, p) ==
    LET tmp == s.data[u]
    IN  IF p # tmp
        THEN [delete_data(s, tmp) EXCEPT !.data[u] = p, !.rel = @ \ {p}]
        ELSE s

U_assign_move_leak(s, u, o) ==
    IF u = o THEN s
    ELSE [s EXCEPT !.data[u] = s.data[o], !.data[o] = Null]

U_assign_move_unguarded(s, u, o) ==
    LET s1 == delete_data(s, s.data[u])
        s2 == [s1 EXCEPT !.data[u] = s1.data[o]]
    IN  [s2 EXCEPT !.data[o] = Null]

\* U_ptr<T>& operator =(U_ptr<T>&& other) noexcept
U_assign_move(s, u, o) ==
    IF u = o THEN s
    ELSE LET s1 == delete_data(s, s.data[u])
             s2 == [s1 EXCEPT !.data[u] = s1.data[o]]
         IN  [s2 EXCEPT !.data[o] = Null]

\* make_unique when `new T{ ... }` yields null: return U_ptr<T>{ nullptr };
make_unique_null(s, u) == U_ptr_raw(s, u, Null)

\* ---- sequential use of U_ptr: one action per operation ------------------
\* U_ptr<T> u;
UNewDefault(u) ==
    /\ ~uLive[u]
    /\ InstallU(U_ptr_default(Ut, u))
    /\ UNCHANGED <<sLive, sData, sRc, cnt, blkFreed, blkRes, nextBlk, mVars>>

\* U_ptr<T> u{ nullptr };
UNewNull(u) ==
    /\ ~uLive[u]
    /\ InstallU(U_ptr_raw(Ut, u, Null))
    /\ UNCHANGED <<sLive, sData, sRc, cnt, blkFreed, blkRes, nextBlk, mVars>>

\* U_ptr<T> u{ new T };   and the object make_unique returns
UNewRaw(u) ==
    /\ ~uLive[u] /\ CanAllocRes
    /\ InstallU(U_ptr_raw(newT(Ut), u, nextRes))
    /\ UNCHANGED <<sLive, sData, sRc, cnt, blkFreed, blkRes, nextBlk, mVars>>

\* U_ptr<T> u{ p };   p an address an earlier release() returned
UNewReleased(u, p) ==
    /\ ~uLive[u] /\ p \in released
    /\ InstallU(U_ptr_raw(Ut, u, p))
    /\ UNCHANGED <<sLive, sData, sRc, cnt, blkFreed, blkRes, nextBlk, mVars>>

\* U_ptr<T> u{ move(o) };
UMoveCtor(u, o) ==
    /\ ~uLive[u] /\ uLive[o]
    /\ InstallU(U_ptr_move(Ut, u, o))
    /\ UNCHANGED <<sLive, sData, sRc, cnt, blkFreed, blkRes, nextBlk, mVars>>

\* u goes out of scope
UDtor(u) ==
    /\ uLive[u]
    /\ InstallU(U_ptr_dtor(Ut, u))
    /\ UNCHANGED <<sLive, sData, sRc, cnt, blkFreed, blkRes, nextBlk, mVars>>

\* T* p = u.release();
URelease(u) ==
    /\ uLive[u]
    /\ InstallU(release(Ut, u))
    /\ UNCHANGED <<sLive, sData, sRc, cnt, blkFreed, blkRes, nextBlk, mVars>>

\* u = nullptr;
UAssignNull(u) ==
    /\ uLive[u]
    /\ InstallU(U_assign_raw(Ut, u, Null))
    /\ UNCHANGED <<sLive, sData, sRc, cnt, blkFreed, blkRes, nextBlk, mVars>>

\* u = new T;
UAssignFresh(u) ==
    /\ uLive[u] /\ CanAllocRes
    /\ InstallU(U_assign_raw(newT(Ut), u, nextRes))
    /\ UNCHANGED <<sLive, sData, sRc, cnt, blkFreed, blkRes, nextBlk, mVars>>

\* u = p;   p an address an earlier release() returned
UAssignReleased(u, p) ==
    /\ uLive[u] /\ p \in released
    /\ InstallU(U_assign_raw(Ut, u, p))
    /\ UNCHANGED <<sLive, sData, sRc, cnt, blkFreed, blkRes, nextBlk, mVars>>

\* u = u.get();
UAssignOwnRaw(u) ==
    /\ uLive[u]
    /\ InstallU(U_assign_raw(Ut, u, uData[u]))
    /\ UNCHANGED <<sLive, sData, sRc, cnt, blkFreed, blkRes, nextBlk, mVars>>

\* u = move(o);   (o may be u itself)
UAssignMove(u, o) ==
    /\ uLive[u] /\ uLive[o]
    /\ InstallU(U_assign_move(Ut, u, o))
    /\ UNCHANGED <<sLive, sData, sRc, cnt, blkFreed, blkRes, nextBlk, mVars>>

NextU ==
    \/ \E u \in UPtrs : UNewDefault(u)
    \/ \E u \in UPtrs : UNewNull(u)
    \/ \E u \in UPtrs : UNewRaw(u)
    \/ \E u \in UPtrs, p \in Res : UNewReleased(u, p)
    \/ \E u \in UPtrs, o \in UPtrs : UMoveCtor(u, o)
    \/ \E u \in UPtrs : UDtor(u)
    \/ \E u \in UPtrs : URelease(u)
    \/ \E u \in UPtrs : UAssignNull(u)
    \/ \E u \in UPtrs : UAssignFresh(u)
    \/ \E u \in UPtrs, p \in Res : UAssignReleased(u, p)
    \/ \E u \in UPtrs : UAssignOwnRaw(u)
    \/ \E u \in UPtrs, o \in UPtrs : UAssignMove(u, o)

SpecU == Init /\ [][NextU]_vars

\* ---- a program that stores values in its resources and compares them ----
\* *u = v;   through an Owning wrapper
VStore(u, v) ==
    /\ uLive[u] /\ uData[u] # Null
    /\ val' = [val EXCEPT ![uData[u]] = v]
    /\ UNCHANGED <<sVars, uLive, uData, released, pc, opW, opO, opKind, reg, anon, seen>>

\* The rest of the program changes what address 0 holds.
VOther(v) ==
    /\ val' = [val EXCEPT ![Null] = v]
    /\ UNCHANGED <<sVars, uLive, uData, released, pc, opW, opO, opKind, reg, anon, seen>>

\* u == v, v == u, u != v, v != u   with v a value of type T
VCompare(u, v) ==
    /\ uLive[u]
    /\ eq_val(Ut, val, u, v) \in BOOLEAN /\ val_eq(Ut, val, v, u) \in BOOLEAN
    /\ ne_val(Ut, val, u, v) \in BOOLEAN /\ val_ne(Ut, val, v, u) \in BOOLEAN
    /\ UNCHANGED vars

NextVal ==
    \/ \E u \in UPtrs : UNewDefault(u)
    \/ \E u \in UPtrs : UNewRaw(u)
    \/ \E u \in UPtrs : UAssignNull(u)
    \/ \E u \in UPtrs : UDtor(u)
    \/ \E u \in UPtrs, v \in Values : VStore(u, v)
    \/ \E v \in Values : VOther(v)
    \/ \E u \in UPtrs, v \in Values : VCompare(u, v)

SpecVal == Init /\ [][NextVal]_vars

\* ---- the observers of an S_ptr, as operations of the program -------------
\* The raw addresses a caller can compare a wrapper with.
RawAddrs == {Null} \cup {a \in Res : a < nextRes}

\* A get() that hands the resource over, as a release() would.
get_call_releasing(s, w) == [s EXCEPT !.data[w] = Null]

\* The state after w.get(), *w, w->  :  T* get(void) const { return _data; }
get_call(s, w) == s

\* The state after  if (w)  :  explicit operator bool(void) const
bool_call(s, w) == s

\* The state after  w == o  or  w != o  : both arguments by const reference,
\* only get() is called on them
compare_call(s, w, o) == s

\* The state after  w == p, p == w, w != p, p != w  : the wrapper by const
\* reference, the address by value
compare_raw_call(s, w, p) == s

\* The state after w.count()  :  uint16_t count(void) const { return *_ref_count; }
count_call(s, w) == s

\* w.get(), *w, w->
SGet(w) ==
    /\ sLive[w]
    /\ get(St, w) \in RawAddrs
    /\ Install(get_call(St, w))
    /\ UNCHANGED <<uVars, mVars>>

\* if (w)
SBool(w) ==
    /\ sLive[w]
    /\ to_bool(St, w) \in BOOLEAN
    /\ Install(bool_call(St, w))
    /\ UNCHANGED <<uVars, mVars>>

\* w == o, w != o
SCompare(w, o) ==
    /\ sLive[w] /\ sLive[o]
    /\ eq_ptr(St, w, o) \in BOOLEAN /\ ne_ptr(St, w, o) \in BOOLEAN
    /\ Install(compare_call(St, w, o))
    /\ UNCHANGED <<uVars, mVars>>

\* w == p, p == w, w != p, p != w
SCompareRaw(w, p) ==
    /\ sLive[w]
    /\ eq_raw(St, w, p) \in BOOLEAN /\ raw_eq(St, p, w) \in BOOLEAN
    /\ ne_raw(St, w, p) \in BOOLEAN /\ raw_ne(St, p, w) \in BOOLEAN
    /\ Install(compare_raw_call(St, w, p))
    /\ UNCHANGED <<uVars, mVars>>

\* w.count()
SCount(w) ==
    /\ sLive[w]
    /\ count(St, w) \in 0..(CountModulus - 1)
    /\ Install(count_call(St, w))
    /\ UNCHANGED <<uVars, mVars>>

NextObs ==
    \/ \E w \in SPtrs : SGet(w)
    \/ \E w \in SPtrs : SBool(w)
    \/ \E w \in SPtrs, o \in SPtrs : SCompare(w, o)
    \/ \E w \in SPtrs, p \in RawAddrs : SCompareRaw(w, p)
    \/ \E w \in SPtrs : SCount(w)

\* A sequential program that also calls the observers between the operations.
NextWithObs == Next \/ NextObs

SpecObs == Init /\ [][NextWithObs]_vars

\* ---- a program using both kinds of wrapper (DuinoMemory.hpp) --------------
\* A sketch that includes DuinoMemory.hpp holds U_ptr and S_ptr objects side by
\* side; each step is one operation on one of them.
NextAll == Next \/ NextU

SpecAll == Init /\ [][NextAll]_vars

\* ---- S_ptr under interrupt preemption ------------------------------------
\* The main flow runs one S_ptr operation at a time, one memory access per step;
\* an interrupt handler may run between any two steps and runs to completion.
\* The count cell is a uint16_t: (*_ref_count)++ and *_ref_count -= 1 are a load,
\* an add and a store, and the code puts no interrupt guard around them.
MainS == 1..(NumS - 1)      \* S_ptr objects of the main flow
IsrS == {NumS}              \* the S_ptr object the interrupt handler keeps

\* What a load of cell b can give: its contents, or anything once it is freed.
CellValues(b) == IF blkFreed[b] = 0 THEN {cnt[b]} ELSE {cnt[b]} \cup (0..Garbage)

Idle == /\ pc' = "idle" /\ opW' = Null /\ opO' = Null /\ opKind' = "none" /\ reg' = 0

\* main: S_ptr<T> w{ new T };   the cell is new, no handler can reach it yet
MNewRaw(w) ==
    /\ pc = "idle" /\ ~sLive[w] /\ CanAllocBlk /\ CanAllocRes
    /\ Install(S_ptr_raw(newT(St), w, nextRes))
    /\ UNCHANGED <<uVars, mVars>>

\* main: S_ptr<T> w{ o };   the member initializers, then the test of other.get()
MCopyBegin(w, o) ==
    /\ pc = "idle" /\ ~sLive[w] /\ sLive[o]
    /\ sLive' = [sLive EXCEPT ![w] = TRUE]
    /\ sData' = [sData EXCEPT ![w] = sData[o]]
    /\ sRc' = [sRc EXCEPT ![w] = sRc[o]]
    /\ IF sData[o] # Null
       THEN pc' = "inc_load" /\ opW' = w /\ opO' = o /\ opKind' = "copy" /\ reg' = 0
       ELSE Idle
    /\ UNCHANGED <<cnt, blkFreed, blkRes, nextBlk, dtors, nextRes, uVars, tVars>>

\* main: the load of (*_ref_count)++  /  *_ref_count += 1
MIncLoad ==
    /\ pc = "inc_load"
    /\ \E v \in CellValues(sRc[opW]) : reg' = v
    /\ pc' = "inc_store"
    /\ UNCHANGED <<sVars, uVars, tVars, opW, opO, opKind>>

\* main: the store of (*_ref_count)++  /  *_ref_count += 1; the operation returns
MIncStore ==
    /\ pc = "inc_store"
    /\ (reg + 1) % CountModulus <= MaxCnt
    /\ cnt' = [cnt EXCEPT ![sRc[opW]] = (reg + 1) % CountModulus]
    /\ Idle
    /\ UNCHANGED <<sLive, sData, sRc, blkFreed, blkRes, nextBlk, dtors, nextRes, uVars, tVars>>

\* main: w goes out of scope: ~S_ptr calls decrease_ref_count
MDtorBegin(w) ==
    /\ pc = "idle" /\ sLive[w]
    /\ pc' = "dec_check" /\ opW' = w /\ opO' = Null /\ opKind' = "dtor" /\ reg' = 0
    /\ UNCHANGED <<sVars, uVars, tVars>>

\* main: w = o;   the guard other != *this, then decrease_ref_count
MAssignBegin(w, o) ==
    /\ pc = "idle" /\ sLive[w] /\ sLive[o]
    /\ IF ne_ptr(St, o, w)
       THEN pc' = "dec_check" /\ opW' = w /\ opO' = o /\ opKind' = "assign" /\ reg' = 0
       ELSE Idle
    /\ UNCHANGED <<sVars, uVars, tVars>>

\* main, decrease_ref_count: if (*this == nullptr) return;
MDecCheck ==
    /\ pc = "dec_check"
    /\ pc' = IF eq_raw(St, opW, Null) THEN "dec_done" ELSE "dec_load"
    /\ UNCHANGED <<sVars, uVars, tVars, opW, opO, opKind, reg>>

\* main, decrease_ref_count: the load of *_ref_count -= 1
MDecLoad ==
    /\ pc = "dec_load"
    /\ \E v \in CellValues(sRc[opW]) : reg' = v
    /\ pc' = "dec_store"
    /\ UNCHANGED <<sVars, uVars, tVars, opW, opO, opKind>>

\* main, decrease_ref_count: the store of *_ref_count -= 1
MDecStore ==
    /\ pc = "dec_store"
    /\ (reg - 1) % CountModulus <= MaxCnt
    /\ cnt' = [cnt EXCEPT ![sRc[opW]] = (reg - 1) % CountModulus]
    /\ pc' = "dec_test" /\ reg' = 0
    /\ UNCHANGED <<sLive, sData, sRc, blkFreed, blkRes, nextBlk, dtors, nextRes, uVars, tVars,
                   opW, opO, opKind>>

\* main, decrease_ref_count: if (*_ref_count == 0), a second load of the cell
MDecTest ==
    /\ pc = "dec_test"
    /\ \E v \in CellValues(sRc[opW]) : pc' = IF v = 0 THEN "dec_free_cell" ELSE "dec_done"
    /\ UNCHANGED <<sVars, uVars, tVars, opW, opO, opKind, reg>>

\* main, decrease_ref_count: delete _ref_count;
MDecFreeCell ==
    /\ pc = "dec_free_cell"
    /\ blkFreed' = [blkFreed EXCEPT ![sRc[opW]] = Cap2(@ + 1)]
    /\ pc' = "dec_free_res"
    /\ UNCHANGED <<sLive, sData, sRc, cnt, blkRes, nextBlk, dtors, nextRes, uVars, tVars,
                   opW, opO, opKind, reg>>

\* main, decrease_ref_count: tmp = get(); set_data(nullptr); delete tmp;
MDecFreeRes ==
    /\ pc = "dec_free_res"
    /\ sData' = [sData EXCEPT ![opW] = Null]
    /\ dtors' = delete_data(St, sData[opW]).dtors
    /\ pc' = "dec_done"
    /\ UNCHANGED <<sLive, sRc, cnt, blkFreed, blkRes, nextBlk, nextRes, uVars, tVars,
                   opW, opO, opKind, reg>>

\* main: ~S_ptr returns, the object is gone
MDtorEnd ==
    /\ pc = "dec_done" /\ opKind = "dtor"
    /\ sLive' = [sLive EXCEPT ![opW] = FALSE]
    /\ sData' = [sData EXCEPT ![opW] = Null]
    /\ sRc' = [sRc EXCEPT ![opW] = Null]
    /\ Idle
    /\ UNCHANGED <<cnt, blkFreed, blkRes, nextBlk, dtors, nextRes, uVars, tVars>>

\* main, operator=: set_data(other.get()); _ref_count = other._ref_count;
\* then the test other != nullptr
MAssignSet ==
    /\ pc = "dec_done" /\ opKind = "assign"
    /\ sData' = [sData EXCEPT ![opW] = sData[opO]]
    /\ sRc' = [sRc EXCEPT ![opW] = sRc[opO]]
    /\ IF sData[opO] # Null
       THEN pc' = "inc_load" /\ UNCHANGED <<opW, opO, opKind, reg>>
       ELSE Idle
    /\ UNCHANGED <<sLive, cnt, blkFreed, blkRes, nextBlk, dtors, nextRes, uVars, tVars>>

\* handler: copy-constructs its S_ptr i from a wrapper o of the main flow that
\* holds a resource; runs to completion.  The wrapper the main flow is in the
\* middle of changing is not the one the handler reads.
IsrCopy(i, o) ==
    /\ ~sLive[i] /\ sLive[o] /\ sData[o] # Null
    /\ pc # "idle" => o # opW
    /\ \E v \in CellValues(sRc[o]) :
           /\ (v + 1) % CountModulus <= MaxCnt
           /\ Install(S_ptr_copy([St EXCEPT !.cnt[sRc[o]] = v], i, o))
    /\ UNCHANGED <<uVars, mVars>>

\* handler: destroys its S_ptr i; runs to completion.  A handler must not run
\* delete, so it releases only a reference that is not the last one.
IsrDtor(i) ==
    /\ sLive[i]
    /\ \E v \in CellValues(sRc[i]) :
           /\ sData[i] # Null => v > 1
           /\ Install(S_ptr_dtor([St EXCEPT !.cnt[sRc[i]] = v], i))
    /\ UNCHANGED <<uVars, mVars>>

NextISR ==
    \/ \E w \in MainS : MNewRaw(w)
    \/ \E w \in MainS, o \in MainS : MCopyBegin(w, o)
    \/ MIncLoad
    \/ MIncStore
    \/ \E w \in MainS : MDtorBegin(w)
    \/ \E w \in MainS, o \in MainS : MAssignBegin(w, o)
    \/ MDecCheck
    \/ MDecLoad
    \/ MDecStore
    \/ MDecTest
    \/ MDecFreeCell
    \/ MDecFreeRes
    \/ MDtorEnd
    \/ MAssignSet
    \/ \E i \in IsrS, o \in MainS : IsrCopy(i, o)
    \/ \E i \in IsrS : IsrDtor(i)

SpecISR == Init /\ [][NextISR]_vars

\* ---- a table of copies of one S_ptr ---------------------------------------
\* table[n] = o;  on a fresh table entry: the copy is built in slot tmp by the
\* copy constructor and then kept in the table, outside the named wrappers.
table_put(s, o, tmp) ==
    [S_ptr_copy(s, tmp, o) EXCEPT !.live[tmp] = FALSE, !.data[tmp] = Null, !.rc[tmp] = Null]

\* A table entry, a copy of o, is destroyed: ~S_ptr runs on an object with o's
\* address and cell.
table_drop(s, o, tmp) ==
    S_ptr_dtor([s EXCEPT !.live[tmp] = TRUE, !.data[tmp] = s.data[o], !.rc[tmp] = s.rc[o]],
               tmp)

\* ---- count() of the main flow, preempted by the interrupt handler -------
\* The main flow owns wrapper 1 and calls count() on it; the handler keeps copies
\* of wrapper 1 in a table and runs atomically.  On an 8-bit target (AVR) the
\* load of the uint16_t cell is two byte loads, on a wider target one load.

\* main: S_ptr<T> w{ new T };
TNewRaw ==
    /\ pc = "idle"
    /\ SNewRaw(1)

\* main, count() on an 8-bit target: the load of the low byte of *_ref_count
TCountLo ==
    /\ pc = "idle" /\ sLive[1]
    /\ pc' = "count_lo" /\ opW' = 1 /\ opKind' = "count"
    /\ reg' = cnt[sRc[1]] % ByteModulus
    /\ seen' = cnt[sRc[1]]
    /\ UNCHANGED <<sVars, uVars, opO, anon>>

\* main, count() on an 8-bit target: the load of the high byte; count() returns reg
TCountHi ==
    /\ pc = "count_lo"
    /\ reg' = reg + (cnt[sRc[opW]] \div ByteModulus) * ByteModulus
    /\ pc' = "idle" /\ opW' = Null /\ opKind' = "none" /\ seen' = 0
    /\ UNCHANGED <<sVars, uVars, opO, anon>>

\* main, count() on a target that loads the cell in one instruction
TCountWord ==
    /\ pc = "idle" /\ sLive[1]
    /\ reg' = cnt[sRc[1]]
    /\ UNCHANGED <<sVars, uVars, pc, opW, opO, opKind, anon, seen>>

\* handler: one more copy of wrapper 1 (at most one update while count() is suspended)
TIsrCopy ==
    /\ sLive[1] /\ anon < MaxIsrCopies
    /\ pc = "count_lo" => cnt[sRc[1]] = seen
    /\ Install(table_put(St, 1, NumS))
    /\ anon' = anon + 1
    /\ UNCHANGED <<uVars, pc, opW, opO, opKind, reg, seen>>

\* handler: one of its copies is destroyed
TIsrDrop ==
    /\ sLive[1] /\ anon > 0
    /\ pc = "count_lo" => cnt[sRc[1]] = seen
    /\ Install(table_drop(St, 1, NumS))
    /\ anon' = anon - 1
    /\ UNCHANGED <<uVars, pc, opW, opO, opKind, reg, seen>>

NextTorn ==
    \/ TNewRaw
    \/ TCountLo
    \/ TCountHi
    \/ TCountWord
    \/ TIsrCopy
    \/ TIsrDrop

SpecTorn == Init /\ [][NextTorn]_vars

\* ---- a sequential program with a large table of copies ------------------
\* The program owns wrapper 1 and fills a table with copies of it, one at a time
\* or a row of RowLen entries at a time, and destroys entries again.
RECURSIVE table_fill(_, _, _, _)
\* for (i = 0; i < k; i++) table[n + i] = o;   (the k copies, half by half)
table_fill(s, o, tmp, k) ==
    IF k = 0 THEN s
    ELSE IF k = 1 THEN table_put(s, o, tmp)
    ELSE LET h == k \div 2
             s1 == table_fill(s, o, tmp, h)
         IN  table_fill(s1, o, tmp, k - h)

\* The table can take as many entries as the uint16_t cell has values.
MaxTable == CountModulus

WFill(k) ==
    /\ sLive[1] /\ dtors[sData[1]] = 0
    /\ anon + k <= MaxTable
    /\ Install(table_fill(St, 1, NumS, k))
    /\ anon' = anon + k
    /\ UNCHANGED <<uVars, pc, opW, opO, opKind, reg, seen>>

WDrop ==
    /\ sLive[1] /\ dtors[sData[1]] = 0
    /\ anon > 0
    /\ Install(table_drop(St, 1, NumS))
    /\ anon' = anon - 1
    /\ UNCHANGED <<uVars, pc, opW, opO, opKind, reg, seen>>

NextWrap ==
    \/ TNewRaw
    \/ \E k \in {1, RowLen} : WFill(k)
    \/ WDrop

SpecWrap == Init /\ [][NextWrap]_vars

\* ---- resources that hold a wrapper: the nodes of a singly linked list ----
\* T is  struct Node { S_ptr<Node> next; };  the program keeps the list in the
\* wrapper `head`.  The member `next` of the node at address a is the S_ptr
\* object next_of(a); it is constructed with the node and destroyed with it.
head == NumS
ListNodes == {a \in Res : a < NumS}
next_of(a) == a

\* The list program allocates at most MaxListBlk count cells.
MaxListBlk == 7
ListBlocks == 1..MaxListBlk

\* new Node{ }: the resource and, by the member initializer, its empty `next`
new_node(s) == S_ptr_default(newT(s), next_of(s.nr))

RECURSIVE decrease_ref_count_node(_, _)
\* void decrease_ref_count(void) with T = Node: `delete tmp` runs ~Node, which
\* runs ~S_ptr on the member `next`, which calls decrease_ref_count again.  A
\* second delete of the same node finds its member already destroyed.
decrease_ref_count_node(s, w) ==
    IF eq_raw(s, w, Null) THEN s
    ELSE LET b == s.rc[w]
             a == get(s, w)
             s1 == [s EXCEPT !.cnt[b] = (@ - 1) % CountModulus]
         IN  IF s1.cnt[b] = 0
             THEN LET s2 == delete_data([delete_ref_count(s1, b) EXCEPT !.data[w] = Null], a)
                      m == next_of(a)
                  IN  IF s2.live[m]
                      THEN [decrease_ref_count_node(s2, m)
                                EXCEPT !.live[m] = FALSE, !.data[m] = Null, !.rc[m] = Null]
                      ELSE s2
             ELSE s1

\* virtual ~S_ptr(void) with T = Node
S_ptr_dtor_node(s, w) ==
    [decrease_ref_count_node(s, w) EXCEPT !.live[w] = FALSE, !.data[w] = Null, !.rc[w] = Null]

\* S_ptr<T>& operator =(T* data_ptr) with T = Node
assign_raw_node(s, w, p) ==
    IF ne_raw(s, w, p)
    THEN LET s1 == decrease_ref_count_node(s, w)
             s2 == new_uint16([s1 EXCEPT !.data[w] = p], p)
             s3 == [s2 EXCEPT !.rc[w] = s1.nb]
         IN  IF p # Null THEN increment(s3, s1.nb) ELSE s3
    ELSE s

\* S_ptr<T>& operator =(const S_ptr<T>& other) with T = Node.  `other` is read
\* after decrease_ref_count(): when the release destroyed the node `other` is a
\* member of, other.get() and other._ref_count are loads from freed memory and
\* give whatever it holds, the address rd and the cell rc.
assign_copy_node(s, w, o, rd, rc) ==
    IF ne_ptr(s, o, w)
    THEN LET s1 == decrease_ref_count_node(s, w)
             od == IF s1.live[o] THEN get(s1, o) ELSE rd
             oc == IF s1.live[o] THEN s1.rc[o] ELSE rc
             s2 == [s1 EXCEPT !.data[w] = od, !.rc[w] = oc]
         IN  IF od # Null THEN increment(s2, oc) ELSE s2
    ELSE s

InitList ==
    /\ sLive = [w \in SPtrs |-> FALSE]
    /\ sData = [w \in SPtrs |-> Null]
    /\ sRc = [w \in SPtrs |-> Null]
    /\ cnt = [b \in ListBlocks |-> 0]
    /\ blkFreed = [b \in ListBlocks |-> 0]
    /\ blkRes = [b \in ListBlocks |-> Null]
    /\ nextBlk = 1
    /\ dtors = [a \in Res |-> 0]
    /\ nextRes = 1
    /\ uLive = [u \in UPtrs |-> FALSE]
    /\ uData = [u \in UPtrs |-> Null]
    /\ released = {}
    /\ pc = "idle"
    /\ opW = Null
    /\ opO = Null
    /\ opKind = "none"
    /\ reg = 0
    /\ anon = 0
    /\ seen = 0
    /\ val = [a \in {Null} \cup Res |-> 0]

\* What a load from a freed S_ptr object can give: any address, any cell.
FreedAddrs == {Null} \cup {a \in ListNodes : a < nextRes}
FreedCells == {b \in ListBlocks : b < nextBlk}

\* S_ptr<Node> head;
LNewHead ==
    /\ ~sLive[head] /\ nextBlk <= MaxListBlk
    /\ Install(S_ptr_default(St, head))
    /\ UNCHANGED <<uVars, mVars>>

\* w = new Node;   (w is head or the `next` of a node)
LAssignNew(w) ==
    /\ sLive[w]
    /\ nextRes \in ListNodes /\ nextBlk + 1 <= MaxListBlk
    /\ Install(assign_raw_node(new_node(St), w, nextRes))
    /\ UNCHANGED <<uVars, mVars>>

\* w = nullptr;
LAssignNull(w) ==
    /\ sLive[w]
    /\ ne_raw(St, w, Null) => nextBlk <= MaxListBlk
    /\ Install(assign_raw_node(St, w, Null))
    /\ UNCHANGED <<uVars, mVars>>

\* w = o;   among them  head = head->next  and  head->next = head
LAssignCopy(w, o, rd, rc) ==
    /\ sLive[w] /\ sLive[o]
    /\ Install(assign_copy_node(St, w, o, rd, rc))
    /\ UNCHANGED <<uVars, mVars>>

\* head goes out of scope
LDtorHead ==
    /\ sLive[head]
    /\ Install(S_ptr_dtor_node(St, head))
    /\ UNCHANGED <<uVars, mVars>>

NextList ==
    \/ LNewHead
    \/ \E w \in SPtrs : LAssignNew(w)
    \/ \E w \in SPtrs : LAssignNull(w)
    \/ \E w \in SPtrs, o \in SPtrs, rd \in FreedAddrs, rc \in FreedCells :
           LAssignCopy(w, o, rd, rc)
    \/ LDtorHead

SpecList == InitList /\ [][NextList]_vars

\* ---- an exclusively owned list:  struct UNode { U_ptr<UNode> next; }; ------
\* The program keeps the list in the wrapper `uhead`; the member `next` of the
\* node at address a is the U_ptr object unext_of(a).
uhead == NumU
UListNodes == {a \in Res : a < NumU}
unext_of(a) == a

\* new UNode{ }: the resource and its empty member `next`
new_unode(s) == U_ptr_default(newT(s), unext_of(s.nr))

RECURSIVE delete_unode(_, _)
\* delete p with T = UNode: ~UNode runs ~U_ptr on the member `next`, which
\* deletes the node that member owns, and so on down the list.
delete_unode(s, a) ==
    IF a = Null THEN s
    ELSE LET s1 == delete_data(s, a)
             m == unext_of(a)
         IN  IF s1.live[m]
             THEN [delete_unode([s1 EXCEPT !.live[m] = FALSE], s1.data[m])
                       EXCEPT !.data[m] = Null]
             ELSE s1

\* ~U_ptr(void) with T = UNode
U_ptr_dtor_node(s, u) ==
    [delete_unode(s, s.data[u]) EXCEPT !.live[u] = FALSE, !.data[u] = Null]

\* U_ptr<T>& operator =(T* data_ptr) with T = UNode
U_assign_raw_node(s, u, p) ==
    LET tmp == s.data[u]
    IN  IF p # tmp
        THEN [delete_unode(s, tmp) EXCEPT !.data[u] = p, !.rel = @ \ {p}]
        ELSE s

\* U_ptr<T>& operator =(U_ptr<T>&& other) with T = UNode.  `other` is read after
\* delete get(): when the delete destroyed the node `other` is a member of,
\* other.get() is a load from freed memory and gives whatever it holds, rd, and
\* other.set_data(nullptr) is a store into freed memory.
U_assign_move_node(s, u, o, rd) ==
    IF u = o THEN s
    ELSE LET s1 == delete_unode(s, s.data[u])
             od == IF s1.live[o] THEN s1.data[o] ELSE rd
             s2 == [s1 EXCEPT !.data[u] = od]
         IN  IF s2.live[o] THEN [s2 EXCEPT !.data[o] = Null] ELSE s2

\* What a load from a freed U_ptr object can give: any address.
UFreedAddrs == {Null} \cup {a \in UListNodes : a < nextRes}

\* U_ptr<UNode> uhead;
ULNewHead ==
    /\ ~uLive[uhead]
    /\ InstallU(U_ptr_default(Ut, uhead))
    /\ UNCHANGED <<sLive, sData, sRc, cnt, blkFreed, blkRes, nextBlk, mVars>>

\* u = new UNode;   (u is uhead or the `next` of a node)
ULAssignNew(u) ==
    /\ uLive[u] /\ nextRes \in UListNodes
    /\ InstallU(U_assign_raw_node(new_unode(Ut), u, nextRes))
    /\ UNCHANGED <<sLive, sData, sRc, cnt, blkFreed, blkRes, nextBlk, mVars>>

\* u = nullptr;
ULAssignNull(u) ==
    /\ uLive[u]
    /\ InstallU(U_assign_raw_node(Ut, u, Null))
    /\ UNCHANGED <<sLive, sData, sRc, cnt, blkFreed, blkRes, nextBlk, mVars>>

\* u = move(o);   among them  uhead = move(uhead->next)
ULAssignMove(u, o, rd) ==
    /\ uLive[u] /\ uLive[o]
    /\ InstallU(U_assign_move_node(Ut, u, o, rd))
    /\ UNCHANGED <<sLive, sData, sRc, cnt, blkFreed, blkRes, nextBlk, mVars>>

\* p = u.release();   the node leaves the list, the caller keeps its address
ULRelease(u) ==
    /\ uLive[u] /\ uData[u] # Null
    /\ InstallU(release(Ut, u))
    /\ UNCHANGED <<sLive, sData, sRc, cnt, blkFreed, blkRes, nextBlk, mVars>>

\* u = p;   with p an address release() returned
ULAssignReleased(u, p) ==
    /\ uLive[u] /\ p \in released
    /\ InstallU(U_assign_raw_node(Ut, u, p))
    /\ UNCHANGED <<sLive, sData, sRc, cnt, blkFreed, blkRes, nextBlk, mVars>>

\* uhead goes out of scope
ULDtorHead ==
    /\ uLive[uhead]
    /\ InstallU(U_ptr_dtor_node(Ut, uhead))
    /\ UNCHANGED <<sLive, sData, sRc, cnt, blkFreed, blkRes, nextBlk, mVars>>

NextUList ==
    \/ ULNewHead
    \/ \E u \in UPtrs : ULAssignNew(u)
    \/ \E u \in UPtrs : ULAssignNull(u)
    \/ \E u \in UPtrs, o \in UPtrs, rd \in UFreedAddrs : ULAssignMove(u, o, rd)
    \/ \E u \in UPtrs : ULRelease(u)
    \/ \E u \in UPtrs, p \in Res : ULAssignReleased(u, p)
    \/ ULDtorHead

SpecUList == Init /\ [][NextUList]_vars

\* ---- Memory::U_ptr, the copy-transferring variant -------------------------
\* (src/src/internal/SmartPointer.hpp, lines 166-319)
\* U_ptr(void) = default
Memory_U_ptr_default(s, u) == [s EXCEPT !.live[u] = TRUE, !.data[u] = Null]

\* U_ptr(T* data)
Memory_U_ptr_raw(s, u, p) == [s EXCEPT !.live[u] = TRUE, !.data[u] = p]

\* U_ptr(const U_ptr<T>& other): takes other's address and sets other to null
Memory_U_ptr_copy(s, u, o) ==
    LET s1 == [s EXCEPT !.live[u] = TRUE, !.data[u] = s.data[o]]
    IN  [s1 EXCEPT !.data[o] = Null]

\* virtual ~U_ptr(void): delete get(); afterwards the object is gone
Memory_U_ptr_dtor(s, u) ==
    [delete_data(s, s.data[u]) EXCEPT !.live[u] = FALSE, !.data[u] = Null]

\* U_ptr<T>& operator =(T* data_ptr): no comparison with the current address
Memory_assign_raw(s, u, p) ==
    LET tmp == s.data[u]
        s1 == [s EXCEPT !.data[u] = p]
    IN  delete_data(s1, tmp)

Memory_change_owner_temp_owns(s, source, destination, tmp) ==
    LET del == s.data[destination]
        s1 == [s EXCEPT !.data[destination] = s.data[source]]
        s2 == Memory_U_ptr_copy(s1, tmp, source)
        s3 == Memory_U_ptr_dtor(s2, tmp)
    IN  delete_data(s3, del)

\* static void change_owner(const U_ptr<T>& source, const U_ptr<T>& destination).
\* `((U_ptr<T>) source)` is a cast to the class type, not to a reference: it
\* builds a temporary with the copy constructor, which is what sets source to
\* null; set_data(nullptr) then empties the temporary, which is destroyed at the
\* end of the statement, before `delete del`.  The temporary is the object tmp.
Memory_change_owner(s, source, destination, tmp) ==
    LET del == s.data[destination]
        s1 == [s EXCEPT !.data[destination] = s.data[source]]
        s2 == Memory_U_ptr_copy(s1, tmp, source)
        s3 == [s2 EXCEPT !.data[tmp] = Null]
        s4 == Memory_U_ptr_dtor(s3, tmp)
    IN  delete_data(s4, del)

\* U_ptr<T>& operator =(const U_ptr<T>& other)
Memory_assign_copy(s, u, o, tmp) == Memory_change_owner(s, o, u, tmp)

\* U_ptr<T>& operator =(U_ptr<T>&& other) noexcept
Memory_assign_move(s, u, o, tmp) == Memory_change_owner(s, o, u, tmp)

\* U_ptr<T> u;
MemNewDefault(u) ==
    /\ ~uLive[u]
    /\ InstallU(Memory_U_ptr_default(Ut, u))
    /\ UNCHANGED <<sLive, sData, sRc, cnt, blkFreed, blkRes, nextBlk, mVars>>

\* U_ptr<T> u = make_unique<T>(...);   i.e.  { new T{ args... } }
MemNewRaw(u) ==
    /\ ~uLive[u] /\ CanAllocRes
    /\ InstallU(Memory_U_ptr_raw(newT(Ut), u, nextRes))
    /\ UNCHANGED <<sLive, sData, sRc, cnt, blkFreed, blkRes, nextBlk, mVars>>

\* U_ptr<T> u{ o };
MemCopyCtor(u, o) ==
    /\ ~uLive[u] /\ uLive[o]
    /\ InstallU(Memory_U_ptr_copy(Ut, u, o))
    /\ UNCHANGED <<sLive, sData, sRc, cnt, blkFreed, blkRes, nextBlk, mVars>>

\* u goes out of scope
MemDtor(u) ==
    /\ uLive[u]
    /\ InstallU(Memory_U_ptr_dtor(Ut, u))
    /\ UNCHANGED <<sLive, sData, sRc, cnt, blkFreed, blkRes, nextBlk, mVars>>

\* u = nullptr;
MemAssignNull(u) ==
    /\ uLive[u]
    /\ InstallU(Memory_assign_raw(Ut, u, Null))
    /\ UNCHANGED <<sLive, sData, sRc, cnt, blkFreed, blkRes, nextBlk, mVars>>

\* u = new T;
MemAssignFresh(u) ==
    /\ uLive[u] /\ CanAllocRes
    /\ InstallU(Memory_assign_raw(newT(Ut), u, nextRes))
    /\ UNCHANGED <<sLive, sData, sRc, cnt, blkFreed, blkRes, nextBlk, mVars>>

\* u = u.get();
MemAssignOwnRaw(u) ==
    /\ uLive[u]
    /\ InstallU(Memory_assign_raw(Ut, u, get(Ut, u)))
    /\ UNCHANGED <<sLive, sData, sRc, cnt, blkFreed, blkRes, nextBlk, mVars>>

\* u = o;   (o may be u itself)
MemAssignCopy(u, o, tmp) ==
    /\ uLive[u] /\ uLive[o] /\ ~uLive[tmp]
    /\ InstallU(Memory_assign_copy(Ut, u, o, tmp))
    /\ UNCHANGED <<sLive, sData, sRc, cnt, blkFreed, blkRes, nextBlk, mVars>>

\* u = move(o);
MemAssignMove(u, o, tmp) ==
    /\ uLive[u] /\ uLive[o] /\ ~uLive[tmp]
    /\ InstallU(Memory_assign_move(Ut, u, o, tmp))
    /\ UNCHANGED <<sLive, sData, sRc, cnt, blkFreed, blkRes, nextBlk, mVars>>

NextMem ==
    \/ \E u \in UPtrs : MemNewDefault(u)
    \/ \E u \in UPtrs : MemNewRaw(u)
    \/ \E u \in UPtrs, o \in UPtrs : MemCopyCtor(u, o)
    \/ \E u \in UPtrs : MemDtor(u)
    \/ \E u \in UPtrs : MemAssignNull(u)
    \/ \E u \in UPtrs : MemAssignFresh(u)
    \/ \E u \in UPtrs : MemAssignOwnRaw(u)
    \/ \E u \in UPtrs, o \in UPtrs, tmp \in UPtrs : MemAssignCopy(u, o, tmp)
    \/ \E u \in UPtrs, o \in UPtrs, tmp \in UPtrs : MemAssignMove(u, o, tmp)

SpecMem == Init /\ [][NextMem]_vars

\* ======================= properties, sequential use =====================
\* The live S_ptr objects holding address a.
Holders(a) == {w \in SPtrs : sLive[w] /\ sData[w] = a}

\* The live U_ptr objects holding address a.
UHolders(a) == {u \in UPtrs : uLive[u] /\ uData[u] = a}

\* The count cells the allocator has handed out and `delete` has not been run on.
AllocatedBlocks == {b \in Blocks : b < nextBlk /\ blkFreed[b] = 0}

\* The resources `new T` has created.
CreatedRes == {a \in Res : a < nextRes}

\* C1, first half: count() on a non-empty S_ptr is the number of live S_ptr
\* objects holding the same address.
CountIsSharers ==
    \A w \in SPtrs :
        (sLive[w] /\ sData[w] # Null) => count(St, w) = Cardinality(Holders(sData[w]))

\* C1, second half: a step in which a sharer w is destroyed or stops holding its
\* address lowers count() on every other sharer by exactly 1.
LeavingLowersCountByOne ==
    \A w \in SPtrs :
        (sLive[w] /\ sData[w] # Null /\ (~sLive'[w] \/ sData'[w] # sData[w])) =>
            \A v \in SPtrs \ {w} :
                (sLive[v] /\ sData[v] = sData[w]) =>
                    /\ sLive'[v] /\ sData'[v] = sData[v] /\ sRc'[v] = sRc[v]
                    /\ cnt'[sRc'[v]] = cnt[sRc[v]] - 1

\* C1: in sequential use within the caller contract, count() equals the number of
\* live sharers of the address, and a sharer that is destroyed or reassigned
\* lowers the count seen by each remaining sharer by exactly 1.
C1_CountEqualsSharers == []CountIsSharers /\ [][LeavingLowersCountByOne]_vars

\* C1 witness: two wrappers share one resource (count 2) while the third wrapper,
\* reassigned elsewhere, is the only holder of another resource (count 1).
C1_Witness ==
    \E a \in CreatedRes, a2 \in CreatedRes :
        /\ a # a2
        /\ Cardinality(Holders(a)) = 2 /\ \A w \in Holders(a) : count(St, w) = 2
        /\ Cardinality(Holders(a2)) = 1 /\ \A w \in Holders(a2) : count(St, w) = 1
        /\ \E a3 \in CreatedRes : dtors[a3] = 1

C6_BlockRefIffAddress ==
    \A w \in SPtrs : sLive[w] => ((sRc[w] # Null) <=> (sData[w] # Null))

\* C7: a count cell is allocated if and only if at least one live S_ptr references
\* a resource through it (so none is left once every S_ptr is destroyed).
C7_BlockExistsIffReferenced ==
    \A b \in Blocks :
        (b \in AllocatedBlocks) <=> (\E w \in SPtrs : sLive[w] /\ sData[w] # Null /\ sRc[w] = b)

\* The count cells ever allocated for resource a.
BlocksOf(a) == {b \in Blocks : b < nextBlk /\ blkRes[b] = a}

\* C8, state part: every resource has exactly one count cell over the whole run,
\* and that cell has been freed as often as the resource was destroyed, at most once.
OneBlockPerGroup ==
    \A a \in CreatedRes :
        /\ Cardinality(BlocksOf(a)) = 1
        /\ \A b \in BlocksOf(a) : blkFreed[b] = dtors[a] /\ blkFreed[b] <= 1

\* C8, step part: a cell of a sharing group is freed only by a step that takes its
\* count from 1 to 0, and a step that lowers the count to a value above 0 frees
\* neither the cell nor the resource.
FreedOnlyAtZero ==
    \A b \in Blocks :
        (b < nextBlk /\ blkRes[b] # Null) =>
            /\ (blkFreed'[b] # blkFreed[b]) =>
                   cnt[b] = 1 /\ cnt'[b] = 0 /\ dtors'[blkRes[b]] = dtors[blkRes[b]] + 1
            /\ (cnt'[b] < cnt[b] /\ cnt'[b] > 0) =>
                   blkFreed'[b] = blkFreed[b] /\ dtors'[blkRes[b]] = dtors[blkRes[b]]
            /\ (dtors'[blkRes[b]] # dtors[blkRes[b]]) => blkFreed'[b] = blkFreed[b] + 1

\* C8: the count cell of a sharing group is allocated once, freed once, in the
\* step that destroys the resource, and only when that step takes the count from
\* 1 to 0.
C8_BlockAllocatedAndFreedOnce == []OneBlockPerGroup /\ [][FreedOnlyAtZero]_vars

\* C8 witness: one group's cell was freed with its resource, and another group has
\* seen a release that left its count at 1 with cell and resource intact.
C8_Witness ==
    \E b \in Blocks, b2 \in Blocks :
        /\ b < nextBlk /\ blkRes[b] # Null /\ blkFreed[b] = 1 /\ dtors[blkRes[b]] = 1
        /\ b2 < nextBlk /\ blkRes[b2] # Null /\ blkFreed[b2] = 0 /\ cnt[b2] = 1
        /\ \E w \in SPtrs : ~sLive[w]

\* C9: assigning an S_ptr to itself, to its own raw address, or to a wrapper that
\* shares its count cell changes nothing: no address, no count, no resource.
C9_SelfAssignmentIsNoOp ==
    \A w \in SPtrs :
        sLive[w] =>
            /\ assign_copy(St, w, w) = St
            /\ assign_move(St, w, w) = St
            /\ assign_raw(St, w, get(St, w)) = St
            /\ \A v \in SPtrs :
                   (sLive[v] /\ sRc[v] = sRc[w]) =>
                       assign_copy(St, w, v) = St /\ assign_move(St, w, v) = St

\* C9 witness: a wrapper that is the sole owner of its resource (count 1, where a
\* decrement would free it) beside two wrappers sharing one cell.
C9_Witness ==
    \E w \in SPtrs, v \in SPtrs, x \in SPtrs :
        /\ sLive[w] /\ sLive[v] /\ sLive[x] /\ v # x
        /\ sData[w] # Null /\ count(St, w) = 1
        /\ sData[v] # Null /\ sRc[v] = sRc[x] /\ count(St, v) = 2

\* C10: count() is 0 on every empty S_ptr, and on an owning S_ptr it reads the
\* allocated count cell of the resource the wrapper holds.
C10_CountOfEmptyIsZero ==
    \A w \in SPtrs :
        sLive[w] =>
            /\ sRc[w] \in AllocatedBlocks
            /\ sData[w] = Null => count(St, w) = 0
            /\ sData[w] # Null => blkRes[sRc[w]] = sData[w] /\ count(St, w) = cnt[sRc[w]]

\* C10 witness: two empty wrappers sharing a cell (one copied from the other), and a
\* wrapper emptied by a null assignment that destroyed its resource.
C10_Witness ==
    \E w \in SPtrs, v \in SPtrs, x \in SPtrs :
        /\ w # v /\ sLive[w] /\ sLive[v] /\ sLive[x]
        /\ sData[w] = Null /\ sData[v] = Null /\ sRc[w] = sRc[v]
        /\ sData[x] = Null /\ sRc[x] # sRc[w] /\ count(St, x) = 0
        /\ \E a \in CreatedRes : dtors[a] = 1

\* ======================= properties, interrupt preemption ===============
\* The live S_ptr objects that reference a resource through count cell b.
Referrers(b) == {w \in SPtrs : sLive[w] /\ sData[w] # Null /\ sRc[w] = b}

\* C4: no update of a count is lost to preemption: once the main flow's
\* operation and the handler have both finished, the count of every referenced
\* cell is the number of live S_ptr objects referencing it.
C4_NoLostUpdate ==
    pc = "idle" =>
        \A w \in SPtrs :
            (sLive[w] /\ sData[w] # Null) => cnt[sRc[w]] = Cardinality(Referrers(sRc[w]))

\* C5: under preemption no resource is destroyed while a live S_ptr holds its
\* address, and once the main flow is between operations a resource that no
\* S_ptr holds any more has been destroyed.
C5_NoPrematureFreeNoLeak ==
    \A a \in CreatedRes :
        /\ Holders(a) # {} => dtors[a] = 0
        /\ (pc = "idle" /\ Holders(a) = {}) => dtors[a] >= 1

\* ======================= properties, operation by operation =============
\* C11: an S_ptr constructed from a non-null raw address, and the wrapper w left
\* after the statement  w = make_shared<T>(...)  has completed (temporary built,
\* assigned and destroyed), is Owning with count() = 1 and a resource that has not
\* been destroyed; the count of the new group is never 0 during the statement.
C11_MakeSharedCountIsOne ==
    (CanAllocBlk /\ CanAllocRes) =>
        \A w \in SPtrs :
            /\ ~sLive[w] =>
                   LET t == S_ptr_raw(newT(St), w, nextRes)
                   IN  /\ t.live[w] /\ get(t, w) = nextRes /\ to_bool(t, w)
                       /\ count(t, w) = 1
                       /\ t.dtors[nextRes] = 0
            /\ sLive[w] =>
                   \A tmp \in SPtrs :
                       ~sLive[tmp] =>
                           LET s1 == make_shared(St, tmp)
                               s2 == assign_move(s1, w, tmp)
                               s3 == assign_make_shared(St, w, tmp)
                           IN  /\ s1.cnt[nextBlk] >= 1
                               /\ s2.cnt[nextBlk] >= 1
                               /\ s3.cnt[nextBlk] >= 1
                               /\ s3.live[w] /\ ~s3.live[tmp]
                               /\ get(s3, w) = nextRes /\ to_bool(s3, w)
                               /\ s3.rc[w] = nextBlk /\ s3.freed[nextBlk] = 0
                               /\ count(s3, w) = 1
                               /\ s3.dtors[nextRes] = 0

\* C11 witness: a wrapper is the only holder (count 1) of the newest resource,
\* counted in the newest cell, after the group it held before was released and
\* its resource destroyed; a slot for the temporary is free again.
C11_Witness ==
    \E w \in SPtrs, tmp \in SPtrs, old \in CreatedRes :
        /\ sLive[w] /\ ~sLive[tmp]
        /\ sData[w] = nextRes - 1 /\ sData[w] # Null /\ sData[w] # old
        /\ sRc[w] = nextBlk - 1
        /\ count(St, w) = 1
        /\ dtors[sData[w]] = 0
        /\ dtors[old] = 1

\* C12: at any time at most one live U_ptr holds a given non-null address.
C12_AtMostOneOwner ==
    \A a \in CreatedRes : Cardinality(UHolders(a)) <= 1

\* C12 witness: two live U_ptr objects own two different resources while a
\* third, moved from or released, is Empty.
C12_Witness ==
    \E u \in UPtrs, v \in UPtrs, e \in UPtrs :
        /\ uLive[u] /\ uLive[v] /\ uLive[e]
        /\ uData[u] # Null /\ uData[v] # Null /\ uData[u] # uData[v]
        /\ uData[e] = Null
        /\ dtors[uData[u]] = 0 /\ dtors[uData[v]] = 0

\* C13: move construction and move assignment of a U_ptr from a distinct source
\* leave the destination holding the source's former address and the source
\* Empty; the moved resource is not destroyed; move assignment destroys the
\* destination's previous resource exactly once; nothing else is destroyed.
C13_MoveTransfersOwnership ==
    \A u \in UPtrs, o \in UPtrs :
        (u # o /\ uLive[o]) =>
            LET t == IF uLive[u] THEN U_assign_move(Ut, u, o) ELSE U_ptr_move(Ut, u, o)
                old == IF uLive[u] THEN uData[u] ELSE Null
            IN  /\ t.live[u] /\ t.live[o]
                /\ t.data[u] = uData[o]
                /\ t.data[o] = Null
                /\ \A v \in UPtrs \ {u, o} : t.data[v] = uData[v] /\ t.live[v] = uLive[v]
                /\ \A a \in Res :
                       t.dtors[a] = IF a = old THEN 1 ELSE dtors[a]
                /\ uData[o] # Null => t.dtors[uData[o]] = 0
                /\ old # Null => dtors[old] = 0

\* C13 witness: a destination that owned a resource has been move-assigned from
\* an owning source: it holds another, undestroyed resource, the source is Empty
\* and a resource has been destroyed once.
C13_Witness ==
    \E u \in UPtrs, o \in UPtrs, old \in CreatedRes :
        /\ u # o /\ uLive[u] /\ uLive[o]
        /\ uData[u] # Null /\ uData[u] # old /\ dtors[uData[u]] = 0
        /\ uData[o] = Null
        /\ dtors[old] = 1 /\ UHolders(old) = {} /\ old \notin released

\* C14: move-assigning a U_ptr to itself changes nothing: the wrapper keeps its
\* address and no resource is destroyed.
C14_SelfMoveIsNoOp ==
    \A u \in UPtrs : uLive[u] => U_assign_move(Ut, u, u) = Ut

\* C14 witness: a live U_ptr owns an undestroyed resource while another resource
\* has already been destroyed.
C14_Witness ==
    \E u \in UPtrs, a \in CreatedRes :
        /\ uLive[u] /\ uData[u] # Null /\ uData[u] # a
        /\ dtors[uData[u]] = 0
        /\ dtors[a] = 1

\* The raw addresses a caller within the contract can assign to the U_ptr u:
\* null, the address u already holds, an address obtained from release(), and a
\* freshly created resource.
RawInputsU(u) ==
    {Null, uData[u]} \cup released \cup (IF CanAllocRes THEN {nextRes} ELSE {})

\* The heap in which the address p exists: a fresh p is created first.
UtWith(p) == IF p = nextRes THEN newT(Ut) ELSE Ut

\* C15: assigning a raw address p (null included) to a U_ptr: when p differs from
\* the held address the resource owned before, if any, is destroyed exactly once,
\* nothing else is destroyed and the wrapper holds p; when p is the held address
\* nothing changes; either way destroying the wrapper afterwards destroys p once.
C15_RawAssignment ==
    \A u \in UPtrs :
        uLive[u] =>
            \A p \in RawInputsU(u) :
                LET old == uData[u]
                    t == U_assign_raw(UtWith(p), u, p)
                IN  /\ p # old =>
                           /\ t.live[u] /\ t.data[u] = p
                           /\ old # Null => dtors[old] = 0
                           /\ \A a \in Res : t.dtors[a] = IF a = old THEN 1 ELSE dtors[a]
                    /\ p = old => t = Ut
                    /\ p # Null => /\ t.dtors[p] = 0
                                   /\ U_ptr_dtor(t, u).dtors[p] = 1

\* C15 witness: a U_ptr holds a resource it was handed by raw assignment after
\* release() (another wrapper is Empty), its own previous resource has been
\* destroyed once, and the resource it holds has not been destroyed.
C15_Witness ==
    \E u \in UPtrs, e \in UPtrs, old \in CreatedRes :
        /\ uLive[u] /\ uLive[e] /\ u # e
        /\ uData[u] # Null /\ uData[u] < old /\ dtors[uData[u]] = 0
        /\ uData[e] = Null
        /\ dtors[old] = 1
        /\ released = {}

\* C16: release() hands the held address to the caller, leaves the wrapper Empty
\* and destroys nothing; giving that address to one other U_ptr b, by
\* construction or by raw assignment, ends in the same state as moving a into b:
\* b owns the address, a is Empty, and the resource is destroyed exactly once,
\* when b is destroyed.
C16_ReleaseHandsOver ==
    \A a \in UPtrs :
        uLive[a] =>
            LET ptr == uData[a]
                r == release(Ut, a)
            IN  /\ r.live = uLive
                /\ r.data = [uData EXCEPT ![a] = Null]
                /\ r.dtors = dtors
                /\ r.rel = IF ptr = Null THEN released ELSE released \cup {ptr}
                /\ \A b \in UPtrs \ {a} :
                       LET h == IF uLive[b] THEN U_assign_raw(r, b, ptr)
                                            ELSE U_ptr_raw(r, b, ptr)
                           mv == IF uLive[b] THEN U_assign_move(Ut, b, a)
                                             ELSE U_ptr_move(Ut, b, a)
                       IN  /\ h = mv
                           /\ h.data[b] = ptr /\ h.data[a] = Null
                           /\ ptr # Null =>
                                  /\ h.dtors[ptr] = 0
                                  /\ U_ptr_dtor(h, a).dtors[ptr] = 0
                                  /\ U_ptr_dtor(h, b).dtors[ptr] = 1
                                  /\ U_ptr_dtor(U_ptr_dtor(h, b), a).dtors[ptr] = 1

\* C16 witness: release() has been called: the caller holds an address that no
\* wrapper holds and that has not been destroyed, the releasing wrapper is Empty
\* and another wrapper, owning a resource, can take the address.
C16_Witness ==
    \E a \in UPtrs, b \in UPtrs, p \in released :
        /\ a # b /\ uLive[a] /\ uLive[b]
        /\ uData[a] = Null
        /\ uData[b] # Null
        /\ UHolders(p) = {}
        /\ dtors[p] = 0

\* On one wrapper w of the state s: operator bool, w == nullptr and w != nullptr
\* give the answers of a wrapper whose address is null exactly when it is, and
\* the answers of a wrapper holding an address otherwise.
BoolAgreesWithNull(s, w) ==
    /\ get(s, w) = Null <=> (~to_bool(s, w) /\ eq_raw(s, w, Null) /\ ~ne_raw(s, w, Null))
    /\ get(s, w) # Null <=> (to_bool(s, w) /\ ~eq_raw(s, w, Null) /\ ne_raw(s, w, Null))

\* C17: for every live wrapper, U_ptr or S_ptr, boolean conversion and comparison
\* with null agree: false, == nullptr and not != nullptr exactly when the wrapper
\* is Empty; true, not == nullptr and != nullptr exactly when it holds an address.
C17_BoolAgreesWithNullComparison ==
    /\ \A w \in SPtrs : sLive[w] => BoolAgreesWithNull(St, w)
    /\ \A u \in UPtrs : uLive[u] => BoolAgreesWithNull(Ut, u)

\* C17 witness: an Empty and an Owning S_ptr live next to an Empty and an Owning
\* U_ptr.
C17_Witness ==
    \E w \in SPtrs, v \in SPtrs, u \in UPtrs, x \in UPtrs :
        /\ sLive[w] /\ sData[w] = Null
        /\ sLive[v] /\ sData[v] # Null
        /\ uLive[u] /\ uData[u] = Null
        /\ uLive[x] /\ uData[x] # Null

\* C18: assigning null to an Owning S_ptr w leaves w Empty (null address, boolean
\* false, count() = 0) whether or not it was the last holder; every other sharer
\* keeps the address and its cell and sees the count lowered by 1; the resource is
\* destroyed exactly when w was the last holder, and no other resource is.
C18_NullAssignmentEmpties ==
    \A w \in SPtrs :
        (sLive[w] /\ sData[w] # Null /\ CanAllocBlk) =>
            LET a == sData[w]
                t == assign_raw(St, w, Null)
            IN  /\ t.live[w] /\ get(t, w) = Null /\ ~to_bool(t, w)
                /\ count(t, w) = 0
                /\ \A v \in Holders(a) \ {w} :
                       /\ t.live[v] /\ get(t, v) = a /\ t.rc[v] = sRc[v]
                       /\ count(t, v) = count(St, v) - 1
                /\ dtors[a] = 0
                /\ \A r \in Res :
                       t.dtors[r] = IF r = a /\ Holders(a) = {w} THEN 1 ELSE dtors[r]

\* C18 witness: a wrapper is Empty with count() = 0 read from the newest cell,
\* while a former sharer still owns the undestroyed resource alone, and another
\* resource, given up by its last holder, has been destroyed.
C18_Witness ==
    \E w \in SPtrs, v \in SPtrs, a \in CreatedRes :
        /\ sLive[w] /\ sData[w] = Null /\ sRc[w] = nextBlk - 1 /\ count(St, w) = 0
        /\ sLive[v] /\ sData[v] # Null /\ sData[v] # a
        /\ count(St, v) = 1 /\ dtors[sData[v]] = 0
        /\ blkRes[sRc[w]] = Null
        /\ dtors[a] = 1

\* C19: assigning a fresh non-null raw address p to an S_ptr w releases the group
\* w was in (its count drops by 1, the other sharers keep address and cell, its
\* resource is destroyed exactly when w was the last holder) and makes w Owning
\* over p with a newly allocated cell that no other wrapper references and whose
\* count is 1; no other resource is destroyed.
C19_FreshRawAssignment ==
    \A w \in SPtrs :
        (sLive[w] /\ CanAllocBlk /\ CanAllocRes) =>
            LET p == nextRes
                old == sData[w]
                t == assign_raw(newT(St), w, p)
            IN  /\ t.live[w] /\ get(t, w) = p /\ to_bool(t, w)
                /\ t.rc[w] = nextBlk /\ t.nb = nextBlk + 1 /\ t.freed[nextBlk] = 0
                /\ t.rc[w] # sRc[w]
                /\ \A v \in SPtrs \ {w} : t.live[v] => t.rc[v] # t.rc[w]
                /\ count(t, w) = 1
                /\ old # Null =>
                       /\ t.cnt[sRc[w]] = cnt[sRc[w]] - 1
                       /\ \A v \in Holders(old) \ {w} :
                              /\ get(t, v) = old /\ t.rc[v] = sRc[v]
                              /\ count(t, v) = count(St, v) - 1
                /\ old = Null => t.cnt[sRc[w]] = cnt[sRc[w]]
                /\ \A r \in Res :
                       t.dtors[r] = IF r = old /\ Holders(old) = {w} THEN 1 ELSE dtors[r]
                /\ t.dtors[p] = 0

\* C19 witness: a wrapper owns the newest resource alone, counted 1 in the newest
\* cell, while the group it left lives on: its former sharer still owns the older,
\* undestroyed resource with count 1 in an older cell.
C19_Witness ==
    \E w \in SPtrs, v \in SPtrs :
        /\ w # v /\ sLive[w] /\ sLive[v]
        /\ sData[w] = nextRes - 1 /\ sData[w] # Null
        /\ sRc[w] = nextBlk - 1 /\ count(St, w) = 1
        /\ sData[v] # Null /\ sData[v] < sData[w] /\ sRc[v] < sRc[w]
        /\ count(St, v) = 1
        /\ dtors[sData[v]] = 0 /\ dtors[sData[w]] = 0

\* C20: copy-constructing from an Empty S_ptr o, or copy-assigning o to any S_ptr
\* w, yields an Empty w (null address, count() = 0) and raises no count; when w
\* was Owning, the group it held is released exactly as by  w = nullptr : the
\* same resources destroyed, the same cells freed, the same counts left in the
\* cells that existed, the same addresses in every wrapper.
C20_CopyFromEmpty ==
    \A o \in SPtrs :
        (sLive[o] /\ sData[o] = Null) =>
            \A w \in SPtrs :
                /\ ~sLive[w] =>
                       LET t == S_ptr_copy(St, w, o)
                       IN  /\ t.live[w] /\ get(t, w) = Null /\ ~to_bool(t, w)
                           /\ count(t, w) = 0
                           /\ t.cnt = cnt /\ t.dtors = dtors /\ t.freed = blkFreed
                /\ sLive[w] =>
                       LET t == assign_copy(St, w, o)
                           n == assign_raw(St, w, Null)
                       IN  /\ t.live[w] /\ get(t, w) = Null /\ ~to_bool(t, w)
                           /\ count(t, w) = 0
                           /\ \A b \in Blocks : t.cnt[b] <= cnt[b]
                           /\ sData[w] = Null => t = St
                           /\ CanAllocBlk =>
                                  /\ t.dtors = n.dtors
                                  /\ t.freed = n.freed
                                  /\ t.data = n.data /\ t.live = n.live
                                  /\ \A b \in Blocks : b < nextBlk => t.cnt[b] = n.cnt[b]
                                  /\ \A v \in SPtrs \ {w} : t.rc[v] = n.rc[v]

\* C20 witness: two distinct Empty wrappers read count() = 0 from one shared
\* cell, the resource the destination gave up as last holder has been destroyed,
\* and a third wrapper still owns an undestroyed resource.
C20_Witness ==
    \E w \in SPtrs, o \in SPtrs, v \in SPtrs, a \in CreatedRes :
        /\ w # o /\ sLive[w] /\ sLive[o]
        /\ sData[w] = Null /\ sData[o] = Null
        /\ sRc[w] = sRc[o] /\ count(St, w) = 0
        /\ dtors[a] = 1
        /\ sLive[v] /\ sData[v] # Null /\ dtors[sData[v]] = 0

\* The live S_ptr objects whose _ref_count is the cell b.
RefHolders(b) == {w \in SPtrs : sLive[w] /\ sRc[w] = b}

\* C21: move construction and move assignment of an S_ptr have exactly the effect
\* of the copy operation: the destination adopts the source's address and cell,
\* the count of a non-empty source's group rises by 1 and the source keeps its
\* address and cell; and in every state reached by any mix of moves and copies
\* the count of a sharing group's cell is the number of live S_ptr objects
\* referencing it.
C21_MoveIsCopy ==
    /\ \A w \in SPtrs :
           (sLive[w] /\ sData[w] # Null) =>
               count(St, w) = Cardinality(RefHolders(sRc[w]))
    /\ \A w \in SPtrs, o \in SPtrs :
           sLive[o] =>
               LET t == IF sLive[w] THEN assign_move(St, w, o) ELSE S_ptr_move(St, w, o)
                   c == IF sLive[w] THEN assign_copy(St, w, o) ELSE S_ptr_copy(St, w, o)
               IN  /\ t = c
                   /\ t.live[w] /\ t.live[o]
                   /\ get(t, w) = sData[o] /\ get(t, o) = sData[o]
                   /\ t.rc[o] = sRc[o]
                   /\ (~sLive[w] \/ sData[w] # sData[o]) =>
                          /\ t.rc[w] = sRc[o]
                          /\ count(t, o) = IF sData[o] # Null THEN count(St, o) + 1 ELSE 0
                          /\ count(t, w) = count(t, o)

\* C21 witness: every wrapper of the model shares one undestroyed resource, the
\* count of its cell being the number of wrappers, after moves or copies.
C21_Witness ==
    \E a \in CreatedRes :
        /\ Holders(a) = SPtrs
        /\ \A w \in SPtrs : sRc[w] = sRc[1] /\ count(St, w) = NumS
        /\ dtors[a] = 0

C24_NoTornRead ==
    [][TCountHi => reg' \in {seen, cnt[sRc[opW]]}]_vars

\* C25: the count in the cell of a live Owning S_ptr is at least 1, whatever the
\* number of sharers, and its resource has not been destroyed.
C25_CountAtLeastOne ==
    \A w \in SPtrs :
        (sLive[w] /\ sData[w] # Null) => cnt[sRc[w]] >= 1 /\ dtors[sData[w]] = 0

\* C26: comparison is by address and consistent: a == b exactly when the two
\* wrappers hold the same address, a == p exactly when a holds p, p == a answers
\* as a == p, every != form answers the opposite of its == form, and two
\* distinct Empty wrappers compare equal.
C26_ComparisonByAddress ==
    \A a \in SPtrs, b \in SPtrs :
        (sLive[a] /\ sLive[b]) =>
            /\ eq_ptr(St, a, b) <=> (get(St, a) = get(St, b))
            /\ ne_ptr(St, a, b) <=> ~eq_ptr(St, a, b)
            /\ eq_ptr(St, a, b) <=> eq_ptr(St, b, a)
            /\ (a # b /\ ~to_bool(St, a) /\ ~to_bool(St, b)) => eq_ptr(St, a, b)
            /\ (sRc[a] = sRc[b] /\ to_bool(St, a)) => eq_ptr(St, a, b)
            /\ \A p \in RawAddrs :
                   /\ eq_raw(St, a, p) <=> (get(St, a) = p)
                   /\ raw_eq(St, p, a) <=> eq_raw(St, a, p)
                   /\ ne_raw(St, a, p) <=> ~eq_raw(St, a, p)
                   /\ raw_ne(St, p, a) <=> ~raw_eq(St, p, a)

\* C26 witness: two distinct Empty wrappers, each with its own cell, next to a
\* wrapper owning a resource.
C26_Witness ==
    \E a \in SPtrs, b \in SPtrs, c \in SPtrs :
        /\ a # b /\ sLive[a] /\ sLive[b] /\ sLive[c]
        /\ sData[a] = Null /\ sData[b] = Null /\ sRc[a] # sRc[b]
        /\ sData[c] # Null /\ dtors[sData[c]] = 0

\* C27: copy-assigning a = b, both Owning and over different resources, changes
\* exactly two groups: the group a leaves loses one reference, its resource and
\* cell being freed exactly when a was its last holder, and b's group gains one;
\* a ends with b's address and cell; b, every other wrapper, every other cell and
\* every other resource are as before, and nothing is allocated.
C27_CopyAssignTouchesTwoGroups ==
    \A a \in SPtrs, b \in SPtrs :
        (sLive[a] /\ sLive[b] /\ sData[a] # Null /\ sData[b] # Null
                  /\ sData[a] # sData[b]) =>
            LET t == assign_copy(St, a, b)
                ra == sData[a]
                ca == sRc[a]
                cb == sRc[b]
                last == Holders(ra) = {a}
            IN  /\ t.live = sLive
                /\ t.data = [sData EXCEPT ![a] = sData[b]]
                /\ t.rc = [sRc EXCEPT ![a] = cb]
                /\ ca # cb
                /\ t.cnt[cb] = cnt[cb] + 1
                /\ t.cnt[ca] = cnt[ca] - 1
                /\ last <=> t.cnt[ca] = 0
                /\ \A c \in Blocks \ {ca, cb} : t.cnt[c] = cnt[c]
                /\ \A c \in Blocks :
                       t.freed[c] = IF c = ca /\ last THEN 1 ELSE blkFreed[c]
                /\ blkFreed[ca] = 0 /\ dtors[ra] = 0
                /\ \A r \in Res :
                       t.dtors[r] = IF r = ra /\ last THEN 1 ELSE dtors[r]
                /\ t.nb = nextBlk /\ t.nr = nextRes

\* C27 witness: a and b share b's resource with count 2, the resource a owned
\* alone before has been destroyed and its cell freed, and a third wrapper's
\* group, with count 1, is untouched.
C27_Witness ==
    \E a \in SPtrs, b \in SPtrs, c \in SPtrs, ra \in CreatedRes :
        /\ a # b /\ sLive[a] /\ sLive[b] /\ sLive[c]
        /\ sData[a] # Null /\ sData[a] = sData[b] /\ sRc[a] = sRc[b]
        /\ count(St, a) = 2 /\ dtors[sData[a]] = 0
        /\ dtors[ra] = 1 /\ Holders(ra) = {}
        /\ \E cell \in BlocksOf(ra) : blkFreed[cell] = 1
        /\ sData[c] # Null /\ sData[c] # sData[a] /\ count(St, c) = 1

\* C28: null assignment is idempotent for both kinds of wrapper: after w = nullptr
\* a second w = nullptr changes nothing and w is Empty; destroying an Empty
\* wrapper, or assigning null, a fresh address or another wrapper to it, runs no
\* resource destructor, lowers no count and frees no cell; release() on an Empty
\* U_ptr changes nothing.
C28_NullAssignmentIdempotent ==
    /\ \A w \in SPtrs :
           sLive[w] =>
               /\ (CanAllocBlk \/ sData[w] = Null) =>
                      LET t == assign_raw(St, w, Null)
                      IN  /\ get(t, w) = Null /\ count(t, w) = 0
                          /\ assign_raw(t, w, Null) = t
               /\ sData[w] = Null =>
                      /\ assign_raw(St, w, Null) = St
                      /\ LET d == S_ptr_dtor(St, w)
                         IN  d.dtors = dtors /\ d.cnt = cnt /\ d.freed = blkFreed
                      /\ (CanAllocBlk /\ CanAllocRes) =>
                             LET f == assign_raw(newT(St), w, nextRes)
                             IN  /\ f.dtors = dtors /\ f.freed = blkFreed
                                 /\ \A b \in Blocks : b < nextBlk => f.cnt[b] = cnt[b]
                      /\ \A o \in SPtrs :
                             sLive[o] =>
                                 LET c == assign_copy(St, w, o)
                                     v == assign_move(St, w, o)
                                 IN  /\ c.dtors = dtors /\ c.freed = blkFreed
                                     /\ v.dtors = dtors /\ v.freed = blkFreed
                                     /\ \A b \in Blocks :
                                            c.cnt[b] >= cnt[b] /\ v.cnt[b] >= cnt[b]
    /\ \A u \in UPtrs :
           uLive[u] =>
               /\ LET t == U_assign_raw(Ut, u, Null)
                  IN  t.data[u] = Null /\ U_assign_raw(t, u, Null) = t
               /\ uData[u] = Null =>
                      /\ U_assign_raw(Ut, u, Null) = Ut
                      /\ release(Ut, u) = Ut
                      /\ U_ptr_dtor(Ut, u).dtors = dtors
                      /\ CanAllocRes => U_assign_raw(newT(Ut), u, nextRes).dtors = dtors
                      /\ \A o \in UPtrs : uLive[o] => U_assign_move(Ut, u, o).dtors = dtors

\* C28 witness: an S_ptr and a U_ptr have both been assigned null as last
\* holders: both are Empty, the S_ptr reads 0 from the cell allocated by the
\* assignment, no wrapper owns anything and two resources were destroyed once.
C28_Witness ==
    \E w \in SPtrs, u \in UPtrs, a \in CreatedRes, b \in CreatedRes :
        /\ a # b /\ dtors[a] = 1 /\ dtors[b] = 1
        /\ sLive[w] /\ sData[w] = Null /\ count(St, w) = 0
        /\ sRc[w] > 1 /\ blkRes[sRc[w]] = Null
        /\ uLive[u] /\ uData[u] = Null
        /\ \A v \in SPtrs : sData[v] = Null
        /\ \A x \in UPtrs : uData[x] = Null
        /\ released = {}

C30_CellOfLiveWrapperAllocated ==
    /\ \A w \in SPtrs :
           sLive[w] => sRc[w] \in AllocatedBlocks
    /\ \A b \in Blocks :
           (b < nextBlk /\ blkFreed[b] # 0) => RefHolders(b) = {}

\* C30 witness: a cell allocated for a resource has been freed by the release of
\* its last holder, and a live wrapper that now owns a newer resource, and a
\* live Empty wrapper, both reference cells that are still allocated.
C30_Witness ==
    \E w \in SPtrs, e \in SPtrs, b \in Blocks :
        /\ b < nextBlk /\ blkFreed[b] = 1 /\ blkRes[b] # Null /\ dtors[blkRes[b]] = 1
        /\ sLive[w] /\ sData[w] # Null /\ sData[w] > blkRes[b] /\ sRc[w] > b
        /\ blkFreed[sRc[w]] = 0
        /\ sLive[e] /\ sData[e] = Null /\ blkFreed[sRc[e]] = 0

\* ======================= properties, wrappers inside resources ===========
\* C31: the list step  head = head->next  with head the only holder of its node:
\* afterwards head holds the node the member `next` held, that node is not
\* destroyed, and its count cell is allocated and counts exactly the live
\* wrappers holding it, whatever the loads from the destroyed member give.
C31_ListStepKeepsNext ==
    \A a \in ListNodes, rd \in FreedAddrs, rc \in FreedCells :
        LET m == next_of(a)
            b == sData[m]
            t == assign_copy_node(St, head, m, rd, rc)
        IN  (/\ sLive[head] /\ sData[head] = a /\ dtors[a] = 0
             /\ count(St, head) = 1
             /\ sLive[m] /\ b # Null /\ b # a /\ dtors[b] = 0)
            => /\ t.data[head] = b
               /\ t.dtors[b] = 0
               /\ t.freed[t.rc[head]] = 0
               /\ t.cnt[t.rc[head]] =
                      Cardinality({w \in SPtrs : t.live[w] /\ t.data[w] = b})

\* C32: the list step  uhead = move(uhead->next) : afterwards uhead holds the
\* node the member `next` held and that node is not destroyed, whatever the load
\* from the destroyed member gives; the node uhead held before is destroyed once.
C32_UListStepKeepsNext ==
    \A a \in UListNodes, rd \in UFreedAddrs :
        LET m == unext_of(a)
            b == uData[m]
            t == U_assign_move_node(Ut, uhead, m, rd)
        IN  (/\ uLive[uhead] /\ uData[uhead] = a /\ dtors[a] = 0
             /\ uLive[m] /\ b # Null /\ b # a /\ dtors[b] = 0)
            => /\ t.data[uhead] = b
               /\ t.dtors[b] = 0
               /\ t.dtors[a] = 1

\* ======================= properties, comparison with a value =============
\* C33: for an Empty wrapper w and any value v, whatever address 0 holds,
\* w == v and v == w are false and w != v and v != w are true; for a wrapper
\* holding an address, w == v and v == w tell whether the value at that address
\* is v, and w != v and v != w tell the opposite.
C33_ValueComparison ==
    \A u \in UPtrs, v \in Values :
        uLive[u] =>
            IF uData[u] = Null
            THEN /\ ~eq_val(Ut, val, u, v) /\ ~val_eq(Ut, val, v, u)
                 /\ ne_val(Ut, val, u, v) /\ val_ne(Ut, val, v, u)
            ELSE /\ eq_val(Ut, val, u, v) = (val[uData[u]] = v)
                 /\ val_eq(Ut, val, v, u) = (val[uData[u]] = v)
                 /\ ne_val(Ut, val, u, v) = (val[uData[u]] # v)
                 /\ val_ne(Ut, val, v, u) = (val[uData[u]] # v)

\* C33 witness: an Empty wrapper while address 0 holds a nonzero value, beside
\* two Owning wrappers whose resources hold different values.
C33_Witness ==
    \E e \in UPtrs, u \in UPtrs, w \in UPtrs :
        /\ uLive[e] /\ uData[e] = Null /\ val[Null] # 0
        /\ uLive[u] /\ uData[u] # Null /\ dtors[uData[u]] = 0
        /\ uLive[w] /\ uData[w] # Null /\ dtors[uData[w]] = 0
        /\ val[uData[u]] # val[uData[w]]

\* ======================= properties, Memory::U_ptr ========================
\* C34: with a and b distinct objects, copy construction of b from a and the
\* assignment b = a pass ownership: afterwards b holds the address a held, a is
\* Empty, no destructor ran on the transferred resource, the resource b owned
\* before is destroyed exactly once, and nothing else changed.
C34_CopyTransfersOwnership ==
    \A b \in UPtrs, a \in UPtrs :
        (uLive[a] /\ b # a) =>
            /\ ~uLive[b] =>
                   LET t == Memory_U_ptr_copy(Ut, b, a)
                   IN  /\ t.live[b] /\ t.data[b] = uData[a] /\ t.data[a] = Null
                       /\ t.dtors = dtors
                       /\ \A x \in UPtrs \ {a, b} :
                              t.live[x] = uLive[x] /\ t.data[x] = uData[x]
            /\ uLive[b] =>
                   \A tmp \in UPtrs :
                       ~uLive[tmp] =>
                           LET t == Memory_assign_copy(Ut, b, a, tmp)
                               old == uData[b]
                           IN  /\ t.live[b] /\ t.data[b] = uData[a]
                               /\ t.live[a] /\ t.data[a] = Null
                               /\ (old # Null /\ dtors[old] = 0) => t.dtors[old] = 1
                               /\ \A c \in Res \ {old} : t.dtors[c] = dtors[c]
                               /\ \A x \in UPtrs \ {a, b} :
                                      t.live[x] = uLive[x] /\ t.data[x] = uData[x]

\* C34 witness: b = a  is possible with a and b owning different undestroyed
\* resources, and also with a third wrapper left to construct as a copy of a.
C34_Witness ==
    \E b \in UPtrs, a \in UPtrs, tmp \in UPtrs :
        /\ b # a /\ uLive[a] /\ uLive[b] /\ ~uLive[tmp]
        /\ uData[a] # Null /\ dtors[uData[a]] = 0
        /\ uData[b] # Null /\ dtors[uData[b]] = 0
        /\ uData[a] # uData[b]
        /\ Memory_assign_copy(Ut, b, a, tmp).dtors[uData[b]] = 1
        /\ Memory_U_ptr_copy(Ut, tmp, a).data[tmp] = uData[a]

\* C35: self-assignment of an Owning wrapper,  u = u  and  u = u.get() , does
\* not destroy the resource and leaves u holding the same address, so that the
\* later destruction of u destroys the resource exactly once.
C35_SelfAssignmentSafe ==
    \A u \in UPtrs, tmp \in UPtrs :
        (uLive[u] /\ ~uLive[tmp] /\ uData[u] # Null /\ dtors[uData[u]] = 0) =>
            LET r == uData[u]
                t1 == Memory_assign_copy(Ut, u, u, tmp)
                t2 == Memory_assign_raw(Ut, u, get(Ut, u))
            IN  /\ t1.data[u] = r /\ t1.dtors[r] = 0
                /\ Memory_U_ptr_dtor(t1, u).dtors[r] = 1
                /\ t2.data[u] = r /\ t2.dtors[r] = 0
                /\ Memory_U_ptr_dtor(t2, u).dtors[r] = 1

====
